---- MODULE Spec2Model ----
(***************************************************************************)
(* SmartAgriAI: the rule-based scoring models of SmartAgriProject/models.  *)
(* Every model is a stateless function of its arguments; a call is a state *)
(* machine of two steps: the arguments are chosen (pc = "call"), then the  *)
(* method runs to its return or to an exception (pc = "done").             *)
(*                                                                         *)
(* Python floats are modelled as exact rationals <<n, d>> in lowest terms  *)
(* with d > 0, so that the arithmetic of the formulas is computed, not     *)
(* abstracted.  Where the exact value leaves the float outcome open - a    *)
(* round() of an exact decimal tie, a sum that cancels to exactly zero -   *)
(* the binary representation error decides, and fp is the direction it     *)
(* takes in the call (one direction for the whole call): both directions   *)
(* are explored.  predict_yield rounds a yield and its product with the    *)
(* area, two floats with errors of their own: there the two directions are *)
(* independent.                                                            *)
(***************************************************************************)
EXTENDS Integers, Sequences, FiniteSets, TLC

VARIABLES pc, op, input, result, fp, instances, crops_table

vars == <<pc, op, input, result, fp, instances, crops_table>>

FloatErrors == {"down", "up"}

\* The error of the rounded values and, after the underscore, that of the
\* product rounded last, when the two differ.
FloatErrorPairs == FloatErrors \cup {"down_up", "up_down"}

----------------------------------------------------------------------------
(* Rational arithmetic standing for Python float arithmetic.               *)

RECURSIVE GCD(_, _)
GCD(a, b) == IF b = 0 THEN a ELSE GCD(b, a % b)

Abs(a) == IF a < 0 THEN -a ELSE a

Rat(n, d) ==
    LET s == IF d < 0 THEN -1 ELSE 1
        g == GCD(Abs(n), Abs(d))
    IN  <<(s * n) \div g, (s * d) \div g>>

Num(n) == <<n, 1>>

RAdd(x, y) ==
    LET g == GCD(x[2], y[2])
    IN  Rat(x[1] * (y[2] \div g) + y[1] * (x[2] \div g), (x[2] \div g) * y[2])

RSub(x, y) == RAdd(x, <<-y[1], y[2]>>)

RMul(x, y) ==
    LET g1 == GCD(Abs(x[1]), y[2])
        g2 == GCD(Abs(y[1]), x[2])
    IN  <<(x[1] \div g1) * (y[1] \div g2), (x[2] \div g2) * (y[2] \div g1)>>

RDiv(x, y) == RMul(x, Rat(y[2], y[1]))

RLe(x, y) ==
    LET g == GCD(x[2], y[2])
    IN  x[1] * (y[2] \div g) <= y[1] * (x[2] \div g)

RLt(x, y) ==
    LET g == GCD(x[2], y[2])
    IN  x[1] * (y[2] \div g) < y[1] * (x[2] \div g)

RGe(x, y) == RLe(y, x)

RGt(x, y) == RLt(y, x)

RMax(x, y) == IF RLt(x, y) THEN y ELSE x

RMin(x, y) == IF RLt(y, x) THEN y ELSE x

RAbs(x) == <<Abs(x[1]), x[2]>>

Pow10(k) ==
    CASE k = 0 -> 1 [] k = 1 -> 10 [] k = 2 -> 100 [] k = 3 -> 1000
      [] k = 4 -> 10000 [] k = 5 -> 100000

\* The first k decimal digits of r / d (0 <= r < d) as <<digits, remainder>>.
RECURSIVE Digits(_, _, _)
Digits(r, d, k) ==
    IF k = 0 THEN <<0, r>>
    ELSE LET first == (r * 10) \div d
             rest  == Digits((r * 10) % d, d, k - 1)
         IN  <<first * Pow10(k - 1) + rest[1], rest[2]>>

\* Python's round(x, k): the nearest multiple of 10^-k.  round() decides on
\* the binary value of the float, so an exact decimal tie goes where the
\* representation error of x points.
RoundTie(x, k, tie_up) ==
    LET sc  == Pow10(k)
        ip  == x[1] \div x[2]
        dg  == Digits(x[1] % x[2], x[2], k)
        q   == ip * sc + dg[1]
        rem == dg[2]
        up  == \/ 2 * rem > x[2]
               \/ 2 * rem = x[2] /\ tie_up
    IN  Rat(IF up THEN q + 1 ELSE q, sc)

Round(x, k) == RoundTie(x, k, fp \in {"up", "up_down"})

\* round() of the product of the value rounded before it and a factor: a
\* float of its own, except that a float times 1.0 is the same float.
RoundProduct(x, k, factor) ==
    IF factor = Num(1) THEN Round(x, k)
    ELSE RoundTie(x, k, fp \in {"up", "down_up"})

\* What is left when two floats that are equal in exact arithmetic are
\* subtracted and the representation error points up: a positive value far
\* below every decimal the results are rounded to.
FloatResidue == Rat(1, 1000000)

\* The key looked up in a dict that has no such key: d[k] raises KeyError.
KeyError == [raised |-> "KeyError"]

\* d.get(k, default)
Get(d, k, default) == IF k \in DOMAIN d THEN d[k] ELSE default

----------------------------------------------------------------------------
(* models/soil_quality.py : SoilQualityModel                               *)

optimal_values ==
    [ph |-> Rat(65, 10), nitrogen |-> Num(50), phosphorus |-> Num(40),
     potassium |-> Num(300), organic_matter |-> Num(5)]

\* The weights of ph and nitrogen exchanged.
weights_exchanged ==
    [ph |-> Rat(25, 100), nitrogen |-> Rat(20, 100), phosphorus |-> Rat(25, 100),
     potassium |-> Rat(20, 100), organic_matter |-> Rat(10, 100)]

weights ==
    [ph |-> Rat(20, 100), nitrogen |-> Rat(25, 100), phosphorus |-> Rat(25, 100),
     potassium |-> Rat(20, 100), organic_matter |-> Rat(10, 100)]

SoilParams == {"ph", "nitrogen", "phosphorus", "potassium", "organic_matter"}

\* A wrong pH tolerance: 3.0 for 3.5.
ph_score_tolerance3(ph) ==
    RMax(Num(0),
         RMul(Num(10),
              RSub(Num(1), RDiv(RAbs(RSub(optimal_values.ph, ph)), Num(3)))))

\* ph_score = max(0, 10 * (1 - abs(optimal - ph) / 3.5))
ph_score(ph) ==
    RMax(Num(0),
         RMul(Num(10),
              RSub(Num(1), RDiv(RAbs(RSub(optimal_values.ph, ph)), Rat(35, 10)))))

\* The cap at 10 forgotten.
nutrient_score_uncapped(value, optimal) == RMul(RDiv(value, optimal), Num(10))

\* x_score = min(x / optimal * 10, 10) for the four nutrient parameters
nutrient_score(value, optimal) ==
    RMin(RMul(RDiv(value, optimal), Num(10)), Num(10))

\* Exclusive lower bounds: > for >=.
_get_grade_exclusive(score) ==
    IF RGt(score, Rat(85, 10)) THEN "Excellent"
    ELSE IF RGt(score, Num(7)) THEN "Good"
    ELSE IF RGt(score, Rat(55, 10)) THEN "Fair"
    ELSE IF RGt(score, Num(4)) THEN "Poor"
    ELSE "Very Poor"

_get_grade(score) ==
    IF RGe(score, Rat(85, 10)) THEN "Excellent"
    ELSE IF RGe(score, Num(7)) THEN "Good"
    ELSE IF RGe(score, Rat(55, 10)) THEN "Fair"
    ELSE IF RGe(score, Num(4)) THEN "Poor"
    ELSE "Very Poor"

_generate_recommendations(ph, nitrogen, phosphorus, potassium, organic_matter) ==
    LET r1 == IF RLt(ph, Num(6)) THEN <<"Add lime">>
              ELSE IF RGt(ph, Rat(75, 10)) THEN <<"Add sulfur">>
              ELSE <<>>
        r2 == IF RLt(nitrogen, Num(30)) THEN <<"Apply nitrogen">>
              ELSE IF RGt(nitrogen, Num(80)) THEN <<"Reduce nitrogen">>
              ELSE <<>>
        r3 == IF RLt(phosphorus, Num(25)) THEN <<"Add phosphorus">> ELSE <<>>
        r4 == IF RLt(potassium, Num(200)) THEN <<"Apply potassium">> ELSE <<>>
        r5 == IF RLt(organic_matter, Num(3)) THEN <<"Increase organic matter">>
              ELSE <<>>
        recs == r1 \o r2 \o r3 \o r4 \o r5
    IN  IF recs = <<>> THEN <<"Soil quality is optimal">> ELSE recs

calculate_soil_quality_score(ph, nitrogen, phosphorus, potassium, organic_matter) ==
    LET s == [ph |-> ph_score(ph),
              nitrogen |-> nutrient_score(nitrogen, optimal_values.nitrogen),
              phosphorus |-> nutrient_score(phosphorus, optimal_values.phosphorus),
              potassium |-> nutrient_score(potassium, optimal_values.potassium),
              organic_matter |->
                  nutrient_score(organic_matter, optimal_values.organic_matter)]
        overall_score ==
            RAdd(RAdd(RAdd(RAdd(RMul(s.ph, weights.ph),
                                RMul(s.nitrogen, weights.nitrogen)),
                           RMul(s.phosphorus, weights.phosphorus)),
                      RMul(s.potassium, weights.potassium)),
                 RMul(s.organic_matter, weights.organic_matter))
    IN  [raised |-> "none",
         overall_score |-> Round(overall_score, 2),
         individual_scores |-> [p \in SoilParams |-> Round(s[p], 2)],
         grade |-> _get_grade(overall_score),
         recommendations |->
             _generate_recommendations(ph, nitrogen, phosphorus, potassium,
                                       organic_matter)]

----------------------------------------------------------------------------
(* models/irrigation_model.py : IrrigationModel                            *)

crop_water_requirements ==
    [wheat |-> Rat(45, 10), rice |-> Num(8), corn |-> Num(6), barley |-> Num(4),
     millet |-> Rat(35, 10), soybean |-> Rat(55, 10), chickpea |-> Num(3),
     lentil |-> Rat(25, 10), groundnut |-> Rat(45, 10), potato |-> Num(5),
     tomato |-> Rat(65, 10), onion |-> Num(4), cabbage |-> Rat(55, 10),
     cotton |-> Num(7), sugarcane |-> Rat(85, 10), mustard |-> Rat(35, 10),
     sunflower |-> Num(5)]

growth_stage_multipliers ==
    [germination |-> Rat(3, 10), vegetative |-> Rat(7, 10),
     flowering |-> Rat(12, 10), grain_filling |-> Num(1), maturity |-> Rat(4, 10)]

soil_water_capacity ==
    [sandy |-> Num(1), loamy |-> Rat(15, 10), clay |-> Num(2),
     organic |-> Rat(25, 10)]

moisture_thresholds ==
    [critical |-> Num(30), stress |-> Num(50), optimal |-> Num(70),
     excess |-> Num(90)]

irrigation_efficiency ==
    [flood |-> Rat(45, 100), furrow |-> Rat(60, 100), sprinkler |-> Rat(75, 100),
     drip |-> Rat(90, 100), micro_sprinkler |-> Rat(85, 100)]

_calculate_evapotranspiration(crop, temperature, humidity, wind_speed, growth_stage) ==
    LET base_et == Get(crop_water_requirements, crop, Num(5))
        stage_multiplier == Get(growth_stage_multipliers, growth_stage, Num(1))
        temp_factor ==
            RMax(Rat(5, 10),
                 RMin(Rat(15, 10),
                      RAdd(Num(1), RMul(RSub(temperature, Num(25)), Rat(2, 100)))))
        humidity_factor ==
            RMax(Rat(7, 10),
                 RMin(Rat(13, 10),
                      RSub(Num(1), RMul(RSub(humidity, Num(50)), Rat(5, 1000)))))
        wind_factor ==
            RMax(Rat(8, 10),
                 RMin(Rat(14, 10),
                      RAdd(Num(1), RMul(RSub(wind_speed, Num(5)), Rat(1, 100)))))
        et_rate ==
            RMul(RMul(RMul(RMul(base_et, stage_multiplier), temp_factor),
                      humidity_factor),
                 wind_factor)
    IN  RMax(Num(1), et_rate)

\* Exclusive thresholds: < for <=.
_assess_moisture_status_exclusive(soil_moisture, soil_type) ==
    LET su == IF RLt(soil_moisture, moisture_thresholds.critical)
                  THEN <<"Critical", "High">>
              ELSE IF RLt(soil_moisture, moisture_thresholds.stress)
                  THEN <<"Stress", "Medium">>
              ELSE IF RLt(soil_moisture, moisture_thresholds.optimal)
                  THEN <<"Adequate", "Low">>
              ELSE IF RLt(soil_moisture, moisture_thresholds.excess)
                  THEN <<"Optimal", "None">>
              ELSE <<"Excess", "Drainage">>
    IN  [status |-> su[1], urgency |-> su[2], moisture_level |-> soil_moisture]

\* The Stress band shifted by the soil type's capacity.
_assess_moisture_status_by_soil(soil_moisture, soil_type) ==
    LET shift == IF soil_type = "sandy" THEN Num(5) ELSE Num(0)
        su == IF RLe(soil_moisture, moisture_thresholds.critical)
                  THEN <<"Critical", "High">>
              ELSE IF RLe(soil_moisture, RAdd(moisture_thresholds.stress, shift))
                  THEN <<"Stress", "Medium">>
              ELSE IF RLe(soil_moisture, moisture_thresholds.optimal)
                  THEN <<"Adequate", "Low">>
              ELSE IF RLe(soil_moisture, moisture_thresholds.excess)
                  THEN <<"Optimal", "None">>
              ELSE <<"Excess", "Drainage">>
    IN  [status |-> su[1], urgency |-> su[2], moisture_level |-> soil_moisture]

\* The description string is fixed by the status and is left out.
_assess_moisture_status(soil_moisture, soil_type) ==
    LET su == IF RLe(soil_moisture, moisture_thresholds.critical)
                  THEN <<"Critical", "High">>
              ELSE IF RLe(soil_moisture, moisture_thresholds.stress)
                  THEN <<"Stress", "Medium">>
              ELSE IF RLe(soil_moisture, moisture_thresholds.optimal)
                  THEN <<"Adequate", "Low">>
              ELSE IF RLe(soil_moisture, moisture_thresholds.excess)
                  THEN <<"Optimal", "None">>
              ELSE <<"Excess", "Drainage">>
    IN  [status |-> su[1], urgency |-> su[2], moisture_level |-> soil_moisture]

\* The final clamp forgotten: return total_deficit.
_calculate_water_deficit_unclamped(crop, soil_moisture, et_rate, days_since_rain, soil_type) ==
    LET target_moisture == moisture_thresholds.optimal
        moisture_deficit == RMax(Num(0), RSub(target_moisture, soil_moisture))
        et_loss == RMul(et_rate, days_since_rain)
        soil_capacity == Get(soil_water_capacity, soil_type, Rat(15, 10))
    IN  RAdd(RMul(RMul(RDiv(moisture_deficit, Num(100)), soil_capacity), Num(300)),
             et_loss)

_calculate_water_deficit(crop, soil_moisture, et_rate, days_since_rain, soil_type) ==
    LET target_moisture == moisture_thresholds.optimal
        moisture_deficit == RMax(Num(0), RSub(target_moisture, soil_moisture))
        et_loss == RMul(et_rate, days_since_rain)
        soil_capacity == Get(soil_water_capacity, soil_type, Rat(15, 10))
        exact ==
            RAdd(RMul(RMul(RDiv(moisture_deficit, Num(100)), soil_capacity),
                      Num(300)),
                 et_loss)
        total_deficit ==
            IF exact = Num(0) /\ et_loss # Num(0) /\ fp = "up" THEN FloatResidue
            ELSE exact
    IN  RMax(Num(0), total_deficit)

\* Wheat under a centre pivot, a method the efficiency table does not have.
crop_methods_pivot ==
    [rice |-> "flood", sugarcane |-> "furrow", tomato |-> "drip",
     potato |-> "sprinkler", cotton |-> "drip", wheat |-> "pivot",
     corn |-> "furrow"]

crop_methods ==
    [rice |-> "flood", sugarcane |-> "furrow", tomato |-> "drip",
     potato |-> "sprinkler", cotton |-> "drip", wheat |-> "sprinkler",
     corn |-> "furrow"]

\* The advantages list is fixed by the method and is left out.
_recommend_irrigation_method(crop, water_deficit) ==
    LET recommended_method == Get(crop_methods, crop, "sprinkler")
    IN  IF recommended_method \notin DOMAIN irrigation_efficiency THEN KeyError
        ELSE LET efficiency == irrigation_efficiency[recommended_method]
                 actual_water_needed ==
                     IF RGt(efficiency, Num(0)) THEN RDiv(water_deficit, efficiency)
                     ELSE water_deficit
             IN  [raised |-> "none",
                  method |-> recommended_method,
                  efficiency_percent |-> RMul(efficiency, Num(100)),
                  water_needed_mm |-> Round(actual_water_needed, 1)]

\* The divisor of High used for Medium as well.
_generate_irrigation_recommendation_medium10(moisture_status, water_deficit, et_rate, crop) ==
    LET urgency == moisture_status.urgency
        pad == CASE urgency = "High" ->
                        <<"Immediate", "Start irrigation within 2-4 hours",
                          RMax(Num(2), RDiv(water_deficit, Num(10))),
                          "Daily until moisture improves">>
                 [] urgency = "Medium" ->
                        <<"Soon", "Irrigate within 12-24 hours",
                          RMax(Num(1), RDiv(water_deficit, Num(10))),
                          "Every 2-3 days">>
                 [] urgency = "Low" ->
                        <<"Monitor",
                          "Continue monitoring, irrigate if conditions worsen",
                          Num(0), "As needed">>
                 [] urgency = "Drainage" ->
                        <<"Drainage", "Improve drainage, avoid irrigation",
                          Num(0), "None - focus on drainage">>
                 [] OTHER ->
                        <<"None", "No irrigation needed", Num(0), "Monitor daily">>
        water_amount == IF RGt(water_deficit, Num(0)) THEN water_deficit ELSE Num(0)
        method == _recommend_irrigation_method(crop, water_deficit)
    IN  IF method.raised # "none" THEN method
        ELSE [raised |-> "none",
              priority |-> pad[1],
              action |-> pad[2],
              duration_hours |-> Round(pad[3], 1),
              frequency |-> pad[4],
              water_amount_mm |-> Round(water_amount, 1),
              best_time |-> "Early morning (5:00-7:00 AM) - minimal evaporation",
              method_recommendation |-> method]

_generate_irrigation_recommendation(moisture_status, water_deficit, et_rate, crop) ==
    LET urgency == moisture_status.urgency
        pad == CASE urgency = "High" ->
                        <<"Immediate", "Start irrigation within 2-4 hours",
                          RMax(Num(2), RDiv(water_deficit, Num(10))),
                          "Daily until moisture improves">>
                 [] urgency = "Medium" ->
                        <<"Soon", "Irrigate within 12-24 hours",
                          RMax(Num(1), RDiv(water_deficit, Num(15))),
                          "Every 2-3 days">>
                 [] urgency = "Low" ->
                        <<"Monitor",
                          "Continue monitoring, irrigate if conditions worsen",
                          Num(0), "As needed">>
                 [] urgency = "Drainage" ->
                        <<"Drainage", "Improve drainage, avoid irrigation",
                          Num(0), "None - focus on drainage">>
                 [] OTHER ->
                        <<"None", "No irrigation needed", Num(0), "Monitor daily">>
        water_amount == IF RGt(water_deficit, Num(0)) THEN water_deficit ELSE Num(0)
        method == _recommend_irrigation_method(crop, water_deficit)
    IN  IF method.raised # "none" THEN method
        ELSE [raised |-> "none",
              priority |-> pad[1],
              action |-> pad[2],
              duration_hours |-> Round(pad[3], 1),
              frequency |-> pad[4],
              water_amount_mm |-> Round(water_amount, 1),
              best_time |-> "Early morning (5:00-7:00 AM) - minimal evaporation",
              method_recommendation |-> method]

base_frequency ==
    [rice |-> 1, sugarcane |-> 2, cotton |-> 3, wheat |-> 4, corn |-> 3,
     tomato |-> 2, potato |-> 3, onion |-> 3]

\* The 14-day schedule; range(1, 15, 0) raises ValueError.
\* The stage adjustment without its floor of 1.
_calculate_irrigation_schedule_unfloored(crop, water_deficit, soil_type, growth_stage) ==
    IF RLe(water_deficit, Num(0))
        THEN [raised |-> "none",
              days |-> <<[day |-> 1, action |-> "Monitor soil moisture",
                          amount_mm |-> Num(0)]>>]
    ELSE LET f0 == Get(base_frequency, crop, 3)
             frequency_days ==
                 IF growth_stage \in {"flowering", "grain_filling"}
                     THEN f0 - 1
                 ELSE IF growth_stage = "maturity" THEN f0 + 2
                 ELSE f0
             total_days == 14
             daily_requirement == Get(crop_water_requirements, crop, Num(5))
             irrigation_amount == RMul(daily_requirement, Num(frequency_days))
         IN  IF frequency_days = 0 THEN [raised |-> "ValueError"]
             ELSE [raised |-> "none",
                   days |->
                       [day \in 1..total_days |->
                           IF (day - 1) % frequency_days = 0
                               THEN [day |-> day,
                                     action |-> "Irrigate",
                                     action_mm |-> Round(irrigation_amount, 1),
                                     amount_mm |-> irrigation_amount,
                                     duration_hours |->
                                         RDiv(irrigation_amount, Num(5)),
                                     best_time |-> "6:00 AM - 8:00 AM"]
                           ELSE [day |-> day, action |-> "Monitor",
                                 amount_mm |-> Num(0), duration_hours |-> Num(0),
                                 best_time |-> "Check soil moisture"]]]

_calculate_irrigation_schedule(crop, water_deficit, soil_type, growth_stage) ==
    IF RLe(water_deficit, Num(0))
        THEN [raised |-> "none",
              days |-> <<[day |-> 1, action |-> "Monitor soil moisture",
                          amount_mm |-> Num(0)]>>]
    ELSE LET f0 == Get(base_frequency, crop, 3)
             frequency_days ==
                 IF growth_stage \in {"flowering", "grain_filling"}
                     THEN (IF f0 - 1 > 1 THEN f0 - 1 ELSE 1)
                 ELSE IF growth_stage = "maturity" THEN f0 + 2
                 ELSE f0
             total_days == 14
             daily_requirement == Get(crop_water_requirements, crop, Num(5))
             irrigation_amount == RMul(daily_requirement, Num(frequency_days))
         IN  IF frequency_days = 0 THEN [raised |-> "ValueError"]
             ELSE [raised |-> "none",
                   days |->
                       [day \in 1..total_days |->
                           IF (day - 1) % frequency_days = 0
                               THEN [day |-> day,
                                     action |-> "Irrigate",
                                     action_mm |-> Round(irrigation_amount, 1),
                                     amount_mm |-> irrigation_amount,
                                     duration_hours |->
                                         RDiv(irrigation_amount, Num(5)),
                                     best_time |-> "6:00 AM - 8:00 AM"]
                           ELSE [day |-> day, action |-> "Monitor",
                                 amount_mm |-> Num(0), duration_hours |-> Num(0),
                                 best_time |-> "Check soil moisture"]]]

_get_efficiency_tips(crop, soil_type, temperature) ==
    <<"Irrigate during early morning or late evening",
      "Use mulching to reduce evaporation",
      "Monitor soil moisture regularly">>
    \o (IF RGt(temperature, Num(30))
            THEN <<"Increase irrigation frequency during hot weather">> ELSE <<>>)
    \o (IF soil_type = "sandy"
            THEN <<"Apply smaller, more frequent irrigations for sandy soil">>
        ELSE IF soil_type = "clay"
            THEN <<"Allow longer intervals between irrigations for clay soil">>
        ELSE <<>>)
    \o (IF crop \in {"tomato", "potato", "cotton"}
            THEN <<"Consider drip irrigation for higher efficiency">> ELSE <<>>)

assess_irrigation_need(crop, soil_moisture, temperature, humidity, wind_speed, growth_stage, soil_type, days_since_rain) ==
    LET et_rate == _calculate_evapotranspiration(crop, temperature, humidity,
                                                 wind_speed, growth_stage)
        moisture_status == _assess_moisture_status(soil_moisture, soil_type)
        water_deficit == _calculate_water_deficit(crop, soil_moisture, et_rate,
                                                  days_since_rain, soil_type)
        recommendation == _generate_irrigation_recommendation(
                              moisture_status, water_deficit, et_rate, crop)
        schedule == _calculate_irrigation_schedule(crop, water_deficit, soil_type,
                                                   growth_stage)
    IN  IF recommendation.raised # "none" THEN [raised |-> recommendation.raised]
        ELSE IF schedule.raised # "none" THEN [raised |-> schedule.raised]
        ELSE [raised |-> "none",
              crop |-> crop,
              assessment |->
                  [moisture_status |-> moisture_status,
                   et_rate |-> Round(et_rate, 2),
                   water_deficit |-> Round(water_deficit, 2),
                   irrigation_priority |-> recommendation.priority],
              recommendation |-> recommendation,
              irrigation_schedule |-> schedule.days,
              efficiency_tips |->
                  _get_efficiency_tips(crop, soil_type, temperature)]

calculate_water_budget(crop, area_hectares, irrigation_method, season_days) ==
    LET daily_requirement == Get(crop_water_requirements, crop, Num(5))
        efficiency == Get(irrigation_efficiency, irrigation_method, Rat(75, 100))
        total_requirement_mm == RMul(daily_requirement, Num(season_days))
        actual_water_needed_mm == RDiv(total_requirement_mm, efficiency)
        total_liters ==
            RMul(RMul(actual_water_needed_mm, area_hectares), Num(10000))
        water_cost == RMul(total_liters, Rat(5, 10000))
    IN  [raised |-> "none",
         crop |-> crop,
         area_hectares |-> area_hectares,
         irrigation_method |-> irrigation_method,
         season_days |-> season_days,
         daily_requirement_mm |-> daily_requirement,
         total_requirement_mm |-> Round(total_requirement_mm, 1),
         actual_water_needed_mm |-> Round(actual_water_needed_mm, 1),
         total_water_liters |-> Round(total_liters, 0),
         efficiency_percent |-> RMul(efficiency, Num(100)),
         estimated_cost_rupees |-> Round(water_cost, 2),
         water_savings_potential |->
             Round(RSub(actual_water_needed_mm, total_requirement_mm), 1)]

----------------------------------------------------------------------------
(* models/yield_prediction.py : YieldPredictionModel                       *)

base_yields ==
    [wheat |-> Rat(45, 10), rice |-> Rat(38, 10), corn |-> Rat(52, 10),
     barley |-> Rat(35, 10), millet |-> Rat(28, 10), soybean |-> Rat(25, 10),
     chickpea |-> Rat(18, 10), lentil |-> Rat(15, 10), groundnut |-> Rat(22, 10),
     potato |-> Num(25), tomato |-> Num(30), onion |-> Num(20),
     cabbage |-> Num(40), cotton |-> Rat(15, 10), sugarcane |-> Num(80),
     mustard |-> Rat(18, 10), sunflower |-> Num(2)]

optimal_conditions ==
    [soil_quality |-> Num(8), rainfall |-> Num(600), temperature |-> Num(25),
     humidity |-> Num(65), nitrogen |-> Num(120), phosphorus |-> Num(60),
     potassium |-> Num(80)]

crop_requirements ==
    [wheat |-> [temp_min |-> Num(15), temp_max |-> Num(25),
                rainfall_min |-> Num(300), rainfall_max |-> Num(800)],
     rice |-> [temp_min |-> Num(20), temp_max |-> Num(35),
               rainfall_min |-> Num(1000), rainfall_max |-> Num(2000)],
     corn |-> [temp_min |-> Num(18), temp_max |-> Num(30),
               rainfall_min |-> Num(500), rainfall_max |-> Num(1200)],
     cotton |-> [temp_min |-> Num(20), temp_max |-> Num(35),
                 rainfall_min |-> Num(500), rainfall_max |-> Num(1000)],
     potato |-> [temp_min |-> Num(15), temp_max |-> Num(25),
                 rainfall_min |-> Num(400), rainfall_max |-> Num(700)]]

\* The four formulas of the piecewise soil factor, one per branch.
soil_factor_optimal(soil_quality) == Num(1)

soil_factor_good(soil_quality) ==
    RAdd(Rat(8, 10), RMul(RSub(soil_quality, Num(6)), Rat(1, 10)))

soil_factor_fair(soil_quality) ==
    RAdd(Rat(6, 10), RMul(RSub(soil_quality, Num(4)), Rat(1, 10)))

soil_factor_poor(soil_quality) ==
    RAdd(Rat(4, 10), RMul(soil_quality, Rat(5, 100)))

\* A slope of 0.04 for 0.05 on the lowest branch.
_calculate_soil_factor_slope4(soil_quality) ==
    IF RGe(soil_quality, optimal_conditions.soil_quality)
        THEN soil_factor_optimal(soil_quality)
    ELSE IF RGe(soil_quality, Num(6)) THEN soil_factor_good(soil_quality)
    ELSE IF RGe(soil_quality, Num(4)) THEN soil_factor_fair(soil_quality)
    ELSE RAdd(Rat(4, 10), RMul(soil_quality, Rat(4, 100)))

_calculate_soil_factor(soil_quality) ==
    IF RGe(soil_quality, optimal_conditions.soil_quality)
        THEN soil_factor_optimal(soil_quality)
    ELSE IF RGe(soil_quality, Num(6)) THEN soil_factor_good(soil_quality)
    ELSE IF RGe(soil_quality, Num(4)) THEN soil_factor_fair(soil_quality)
    ELSE soil_factor_poor(soil_quality)

default_requirements ==
    [temp_min |-> Num(15), temp_max |-> Num(30), rainfall_min |-> Num(400),
     rainfall_max |-> Num(1000)]

\* The floor of 0.3 under the temperature factor forgotten.
_calculate_weather_factor_unfloored(crop, rainfall, temperature, humidity) ==
    LET requirements == Get(crop_requirements, crop, default_requirements)
        temp_factor ==
            IF RLe(requirements.temp_min, temperature)
               /\ RLe(temperature, requirements.temp_max)
                THEN Num(1)
            ELSE LET temp_deviation ==
                         RMin(RAbs(RSub(temperature, requirements.temp_min)),
                              RAbs(RSub(temperature, requirements.temp_max)))
                 IN  RSub(Num(1), RMul(temp_deviation, Rat(5, 100)))
        rain_factor ==
            IF RLe(requirements.rainfall_min, rainfall)
               /\ RLe(rainfall, requirements.rainfall_max)
                THEN Num(1)
            ELSE IF RLt(rainfall, requirements.rainfall_min)
                THEN RMax(Rat(4, 10), RDiv(rainfall, requirements.rainfall_min))
            ELSE LET excess == RSub(rainfall, requirements.rainfall_max)
                 IN  RMax(Rat(5, 10),
                          RSub(Num(1),
                               RMul(RDiv(excess, requirements.rainfall_max),
                                    Rat(3, 10))))
        humidity_factor ==
            IF RLe(Num(60), humidity) /\ RLe(humidity, Num(70)) THEN Num(1)
            ELSE RMax(Rat(7, 10),
                      RSub(Num(1),
                           RMul(RAbs(RSub(humidity, Num(65))), Rat(1, 100))))
    IN  RMul(RMul(temp_factor, rain_factor), humidity_factor)

_calculate_weather_factor(crop, rainfall, temperature, humidity) ==
    LET requirements == Get(crop_requirements, crop, default_requirements)
        temp_factor ==
            IF RLe(requirements.temp_min, temperature)
               /\ RLe(temperature, requirements.temp_max)
                THEN Num(1)
            ELSE LET temp_deviation ==
                         RMin(RAbs(RSub(temperature, requirements.temp_min)),
                              RAbs(RSub(temperature, requirements.temp_max)))
                 IN  RMax(Rat(3, 10),
                          RSub(Num(1), RMul(temp_deviation, Rat(5, 100))))
        rain_factor ==
            IF RLe(requirements.rainfall_min, rainfall)
               /\ RLe(rainfall, requirements.rainfall_max)
                THEN Num(1)
            ELSE IF RLt(rainfall, requirements.rainfall_min)
                THEN RMax(Rat(4, 10), RDiv(rainfall, requirements.rainfall_min))
            ELSE LET excess == RSub(rainfall, requirements.rainfall_max)
                 IN  RMax(Rat(5, 10),
                          RSub(Num(1),
                               RMul(RDiv(excess, requirements.rainfall_max),
                                    Rat(3, 10))))
        humidity_factor ==
            IF RLe(Num(60), humidity) /\ RLe(humidity, Num(70)) THEN Num(1)
            ELSE RMax(Rat(7, 10),
                      RSub(Num(1),
                           RMul(RAbs(RSub(humidity, Num(65))), Rat(1, 100))))
    IN  RMul(RMul(temp_factor, rain_factor), humidity_factor)

_calculate_fertilizer_factor(nitrogen, phosphorus, potassium) ==
    LET n_optimal == optimal_conditions.nitrogen
        n_factor ==
            IF RLe(nitrogen, n_optimal)
                THEN RAdd(Rat(7, 10), RMul(RDiv(nitrogen, n_optimal), Rat(3, 10)))
            ELSE LET excess == RSub(nitrogen, n_optimal)
                 IN  RMax(Rat(8, 10),
                          RSub(Num(1), RMul(RDiv(excess, n_optimal), Rat(2, 10))))
        p_optimal == optimal_conditions.phosphorus
        p_factor ==
            RMin(Num(1),
                 RAdd(Rat(8, 10), RMul(RDiv(phosphorus, p_optimal), Rat(2, 10))))
        k_optimal == optimal_conditions.potassium
        k_factor ==
            RMin(Num(1),
                 RAdd(Rat(9, 10), RMul(RDiv(potassium, k_optimal), Rat(1, 10))))
    IN  RAdd(RAdd(RMul(n_factor, Rat(6, 10)), RMul(p_factor, Rat(25, 100))),
             RMul(k_factor, Rat(15, 100)))

ColdStress == "Cold stress risk - consider frost protection"
HeatStress == "Heat stress risk - ensure adequate irrigation"
Drought == "Drought risk - plan supplemental irrigation"
Waterlogging == "Waterlogging risk - ensure proper drainage"
PoorSoil == "Poor soil quality - consider soil improvement"
Favorable == "Favorable conditions - low production risk"

\* key in risk.lower(), for the six risk texts and the five keys looked for.
InLower(key, risk) ==
    \/ key = "cold stress" /\ risk = ColdStress
    \/ key = "heat stress" /\ risk = HeatStress
    \/ key = "drought" /\ risk = Drought
    \/ key = "waterlogging" /\ risk = Waterlogging
    \/ key = "soil quality" /\ risk = PoorSoil

RECURSIVE _get_mitigation_strategies(_)
_get_mitigation_strategies(risks) ==
    IF risks = <<>> THEN <<>>
    ELSE LET risk == Head(risks)
             strategy ==
                 IF InLower("cold stress", risk)
                     THEN <<"Use row covers, plant after last frost date">>
                 ELSE IF InLower("heat stress", risk)
                     THEN <<"Provide shade, increase irrigation frequency">>
                 ELSE IF InLower("drought", risk)
                     THEN <<"Install drip irrigation, use mulching">>
                 ELSE IF InLower("waterlogging", risk)
                     THEN <<"Improve drainage, use raised beds">>
                 ELSE IF InLower("soil quality", risk)
                     THEN <<"Add organic matter, balance nutrients">>
                 ELSE <<>>
         IN  strategy \o _get_mitigation_strategies(Tail(risks))

\* requirements.get(key, default) on the crop's requirements or on {}.
Requirement(crop, key) ==
    IF crop \in DOMAIN crop_requirements THEN crop_requirements[crop][key]
    ELSE default_requirements[key]

\* First match wins: one elif chain over the five predicates.
_assess_risks_first_match(crop, rainfall, temperature, soil_quality) ==
    LET cold == RLt(temperature, RSub(Requirement(crop, "temp_min"), Num(5)))
        heat == RGt(temperature, RAdd(Requirement(crop, "temp_max"), Num(5)))
        dry  == RLt(rainfall, RMul(Requirement(crop, "rainfall_min"), Rat(7, 10)))
        wet  == RGt(rainfall, RMul(Requirement(crop, "rainfall_max"), Rat(13, 10)))
        poor == RLt(soil_quality, Num(5))
        risks == IF cold THEN <<ColdStress>>
                 ELSE IF heat THEN <<HeatStress>>
                 ELSE IF dry THEN <<Drought>>
                 ELSE IF wet THEN <<Waterlogging>>
                 ELSE IF poor THEN <<PoorSoil>>
                 ELSE <<Favorable>>
    IN  [risk_level |-> IF cold \/ heat \/ dry THEN "High"
                        ELSE IF wet \/ poor THEN "Medium" ELSE "Low",
         risk_factors |-> risks,
         mitigation_strategies |-> _get_mitigation_strategies(risks)]

_assess_risks(crop, rainfall, temperature, soil_quality) ==
    LET cold == RLt(temperature, RSub(Requirement(crop, "temp_min"), Num(5)))
        heat == RGt(temperature, RAdd(Requirement(crop, "temp_max"), Num(5)))
        dry  == RLt(rainfall, RMul(Requirement(crop, "rainfall_min"), Rat(7, 10)))
        wet  == RGt(rainfall, RMul(Requirement(crop, "rainfall_max"), Rat(13, 10)))
        poor == RLt(soil_quality, Num(5))
        r1 == IF cold THEN <<ColdStress>> ELSE IF heat THEN <<HeatStress>> ELSE <<>>
        l1 == IF cold \/ heat THEN "High" ELSE "Low"
        r2 == IF dry THEN <<Drought>> ELSE IF wet THEN <<Waterlogging>> ELSE <<>>
        l2 == IF dry THEN "High"
              ELSE IF wet THEN (IF l1 = "Low" THEN "Medium" ELSE l1)
              ELSE l1
        r3 == IF poor THEN <<PoorSoil>> ELSE <<>>
        l3 == IF poor THEN (IF l2 = "Low" THEN "Medium" ELSE l2) ELSE l2
        found == r1 \o r2 \o r3
        risks == IF found = <<>> THEN <<Favorable>> ELSE found
    IN  [risk_level |-> l3,
         risk_factors |-> risks,
         mitigation_strategies |-> _get_mitigation_strategies(risks)]

\* The first suggestion's text also carries soil_quality to one decimal.
_get_optimization_suggestions(crop, soil_quality, rainfall, temperature, nitrogen, phosphorus, potassium) ==
    LET s1 == IF RLt(soil_quality, Num(7))
                  THEN <<"Improve soil quality to 7+ for better yields">>
              ELSE <<>>
        s2 == IF RLt(nitrogen, Num(100))
                  THEN <<"Increase nitrogen fertilizer for better vegetative growth">>
              ELSE IF RGt(nitrogen, Num(150))
                  THEN <<"Reduce nitrogen to prevent lodging and disease">>
              ELSE <<>>
        s3 == IF RLt(phosphorus, Num(40))
                  THEN <<"Add phosphorus fertilizer for root development">>
              ELSE <<>>
        s4 == IF RLt(potassium, Num(60))
                  THEN <<"Apply potassium for disease resistance and quality">>
              ELSE <<>>
        suggestions == s1 \o s2 \o s3 \o s4
    IN  IF suggestions = <<>> THEN <<"Current management practices are optimal">>
        ELSE suggestions

_calculate_confidence(soil_factor, weather_factor, fertilizer_factor) ==
    LET avg_factor ==
            RDiv(RAdd(RAdd(soil_factor, weather_factor), fertilizer_factor), Num(3))
    IN  IF RGe(avg_factor, Rat(9, 10)) THEN "High (90%+)"
        ELSE IF RGe(avg_factor, Rat(7, 10)) THEN "Medium (70-90%)"
        ELSE "Low (<70%)"

\* The locals of predict_yield when yield_per_hectare has been computed and
\* multiplied by the jitter, before anything is rounded.
yield_per_hectare_locals(crop, soil_quality, rainfall, temperature, humidity, nitrogen, phosphorus, potassium, variability) ==
    IF crop \notin DOMAIN base_yields
        THEN [raised |-> "none", error |-> <<"Crop", crop, "not supported">>]
    ELSE
    LET base_yield == base_yields[crop]
        soil_factor == _calculate_soil_factor(soil_quality)
        weather_factor ==
            _calculate_weather_factor(crop, rainfall, temperature, humidity)
        fertilizer_factor ==
            _calculate_fertilizer_factor(nitrogen, phosphorus, potassium)
        yield_per_hectare ==
            RMul(RMul(RMul(base_yield, soil_factor), weather_factor),
                 fertilizer_factor)
    IN  [raised |-> "none",
         base_yield |-> base_yield,
         soil_factor |-> soil_factor,
         weather_factor |-> weather_factor,
         fertilizer_factor |-> fertilizer_factor,
         variability |-> variability,
         yield_per_hectare |-> RMul(yield_per_hectare, variability)]

\* The area forgotten.
total_production_per_hectare(yield_per_hectare, area_hectares) == yield_per_hectare

\* total_production = yield_per_hectare * area_hectares
total_production_of(yield_per_hectare, area_hectares) ==
    RMul(yield_per_hectare, area_hectares)

\* What predict_yield computes once the crop is known to be supported;
\* variability is the value random.uniform(0.9, 1.1) returns in the call.
yield_prediction(crop, soil_quality, rainfall, temperature, humidity, nitrogen, phosphorus, potassium, area_hectares, variability) ==
    IF crop \notin DOMAIN base_yields THEN KeyError
    ELSE
    LET base_yield == base_yields[crop]
        soil_factor == _calculate_soil_factor(soil_quality)
        weather_factor ==
            _calculate_weather_factor(crop, rainfall, temperature, humidity)
        fertilizer_factor ==
            _calculate_fertilizer_factor(nitrogen, phosphorus, potassium)
        yield_per_hectare ==
            RMul(RMul(RMul(RMul(base_yield, soil_factor), weather_factor),
                      fertilizer_factor),
                 variability)
        total_production == total_production_of(yield_per_hectare, area_hectares)
    IN  [raised |-> "none",
         crop |-> crop,
         predicted_yield_per_hectare |-> Round(yield_per_hectare, 2),
         total_production |-> RoundProduct(total_production, 2, area_hectares),
         area_hectares |-> area_hectares,
         factors |-> [soil_factor |-> Round(soil_factor, 3),
                      weather_factor |-> Round(weather_factor, 3),
                      fertilizer_factor |-> Round(fertilizer_factor, 3)],
         risk_assessment |->
             _assess_risks(crop, rainfall, temperature, soil_quality),
         optimization_suggestions |->
             _get_optimization_suggestions(crop, soil_quality, rainfall,
                 temperature, nitrogen, phosphorus, potassium),
         confidence_level |->
             _calculate_confidence(soil_factor, weather_factor, fertilizer_factor)]

\* The guard on the crop forgotten: base_yields[crop] is reached.
predict_yield_unguarded(crop, soil_quality, rainfall, temperature, humidity, nitrogen, phosphorus, potassium, area_hectares, variability) ==
    yield_prediction(crop, soil_quality, rainfall, temperature, humidity,
                     nitrogen, phosphorus, potassium, area_hectares, variability)

predict_yield(crop, soil_quality, rainfall, temperature, humidity, nitrogen, phosphorus, potassium, area_hectares, variability) ==
    IF crop \notin DOMAIN base_yields
        THEN [raised |-> "none", error |-> <<"Crop", crop, "not supported">>]
    ELSE yield_prediction(crop, soil_quality, rainfall, temperature, humidity,
                          nitrogen, phosphorus, potassium, area_hectares,
                          variability)

\* sum(r['yield'] for r in results)
RECURSIVE SumOfYields(_)
SumOfYields(results) ==
    IF results = <<>> THEN Num(0)
    ELSE RAdd(Head(results).yield, SumOfYields(Tail(results)))

\* The loop over the scenarios, from the i-th on.  A scenario is the dict of
\* keyword arguments of predict_yield; the arguments it leaves out take their
\* defaults.  variabilities[i] is the jitter of the i-th prediction.  The
\* error result of predict_yield has no 'predicted_yield_per_hectare'.
RECURSIVE ScenarioResults(_, _, _, _, _)
ScenarioResults(crop, scenarios, variabilities, i, results) ==
    IF i > Len(scenarios) THEN [raised |-> "none", results |-> results]
    ELSE LET scenario == scenarios[i]
             prediction ==
                 predict_yield(crop, scenario.soil_quality, scenario.rainfall,
                     scenario.temperature, scenario.humidity,
                     Get(scenario, "nitrogen", Num(100)),
                     Get(scenario, "phosphorus", Num(50)),
                     Get(scenario, "potassium", Num(70)),
                     Get(scenario, "area_hectares", Num(1)),
                     variabilities[i])
         IN  IF "predicted_yield_per_hectare" \notin DOMAIN prediction
                 THEN KeyError
             ELSE ScenarioResults(crop, scenarios, variabilities, i + 1,
                      Append(results,
                          [scenario |-> i,
                           yield |-> prediction.predicted_yield_per_hectare,
                           conditions |-> scenario,
                           risk_level |-> prediction.risk_assessment.risk_level]))

\* max(results, key=yield): the first of the results with the highest yield.
BestScenario(results) ==
    LET Highest(i) == \A j \in DOMAIN results :
                          RLe(results[j].yield, results[i].yield)
    IN  results[CHOOSE i \in DOMAIN results :
                    Highest(i) /\ \A j \in 1..(i - 1) : ~Highest(j)]

\* min(r['yield'] for r in results)
LowestYield(results) ==
    LET lowest == CHOOSE i \in DOMAIN results :
                      \A j \in DOMAIN results :
                          RLe(results[i].yield, results[j].yield)
    IN  results[lowest].yield

ScenarioComparison(crop, results) ==
    IF results = <<>> THEN [raised |-> "ValueError"]
    ELSE [raised |-> "none",
          crop |-> crop,
          scenarios |-> results,
          best_scenario |-> BestScenario(results),
          yield_range |->
              [min |-> LowestYield(results),
               max |-> BestScenario(results).yield,
               average |-> RDiv(SumOfYields(results), Num(Len(results)))]]

compare_scenarios(crop, scenarios, variabilities) ==
    LET looped == ScenarioResults(crop, scenarios, variabilities, 1, <<>>)
    IN  IF looped.raised # "none" THEN looped
        ELSE ScenarioComparison(crop, looped.results)

----------------------------------------------------------------------------
(* models/price_prediction.py : PricePredictionModel                        *)

\* A price compounded month after month has no exact rational of bounded
\* size.  The forecast is computed as Python computes it, in floating point
\* of a fixed precision: here five decimal places instead of the 15-16
\* significant digits of a double, every product and quotient rounded to the
\* nearest value, a tie going where fp points.
FloatPlaces == Pow10(5)

\* x in units of 10^-5 (x has at most five decimals)
Units(x) == x[1] * (FloatPlaces \div x[2])

\* round(a / b) for integers a >= 0, b > 0
DivNearest(a, b) ==
    LET q == a \div b
        r == a % b
    IN  IF 2 * r > b \/ (2 * r = b /\ fp = "up") THEN q + 1 ELSE q

\* x * y to five decimals.  The product of the units is taken in parts, as
\* (xi + xf)(yi + yf) with integer parts xi, yi and fractions xf, yf.
FMul(x, y) ==
    LET sign == IF (x[1] < 0) # (y[1] < 0) THEN -1 ELSE 1
        a  == Units(RAbs(x))
        b  == Units(RAbs(y))
        ai == a \div FloatPlaces
        af == a % FloatPlaces
        bi == b \div FloatPlaces
        bf == b % FloatPlaces
        \* af * bf / 10^5, with af = 1000 * h + l and h * bf = 100 * h1 + h0
        h  == af \div 1000
        l  == af % 1000
        h1 == (h * bf) \div 100
        h0 == (h * bf) % 100
        low == DivNearest(1000 * h0 + l * bf, FloatPlaces)
    IN  Rat(sign * (ai * bi * FloatPlaces + ai * bf + af * bi + h1 + low),
            FloatPlaces)

\* x / n to five decimals, n a positive integer
FDivInt(x, n) ==
    LET sign == IF x[1] < 0 THEN -1 ELSE 1
    IN  Rat(sign * DivNearest(Units(RAbs(x)), n), FloatPlaces)

current_prices ==
    [wheat |-> 2200, rice |-> 2800, corn |-> 1800, barley |-> 1900,
     millet |-> 2500, soybean |-> 4500, chickpea |-> 5500, lentil |-> 6000,
     groundnut |-> 5800, potato |-> 1200, tomato |-> 1500, onion |-> 1800,
     cabbage |-> 800, cotton |-> 5500, sugarcane |-> 350, mustard |-> 5200,
     sunflower |-> 6000]

typical_yields ==
    [wheat |-> 45, rice |-> 40, corn |-> 50, barley |-> 35, millet |-> 25,
     soybean |-> 20, chickpea |-> 18, lentil |-> 15, groundnut |-> 22,
     potato |-> 250, tomato |-> 300, onion |-> 200, cabbage |-> 400,
     cotton |-> 15, sugarcane |-> 800, mustard |-> 18, sunflower |-> 20]

cultivation_costs ==
    [wheat |-> 35000, rice |-> 45000, corn |-> 30000, barley |-> 28000,
     millet |-> 20000, soybean |-> 32000, chickpea |-> 28000,
     lentil |-> 25000, groundnut |-> 35000, potato |-> 60000,
     tomato |-> 80000, onion |-> 50000, cabbage |-> 45000, cotton |-> 50000,
     sugarcane |-> 120000, mustard |-> 25000, sunflower |-> 30000]

\* Price multipliers by month, in tenths.
seasonal_patterns ==
    [wheat  |-> <<11, 11, 10, 9, 8, 8, 9, 10, 11, 12, 12, 11>>,
     rice   |-> <<9, 9, 10, 11, 12, 12, 11, 10, 9, 8, 8, 9>>,
     potato |-> <<8, 8, 9, 10, 12, 13, 12, 11, 10, 9, 8, 8>>,
     tomato |-> <<12, 11, 10, 9, 8, 9, 10, 11, 12, 13, 12, 12>>]

\* self.seasonal_patterns.get(crop, [1.0] * 12)[month - 1]
seasonal_multiplier_of(crop, month) ==
    Rat(Get(seasonal_patterns, crop, [m \in 1..12 |-> 10])[month], 10)

volatility ==
    [vegetables |-> Rat(15, 100), cereals |-> Rat(8, 100),
     pulses |-> Rat(12, 100), cash_crops |-> Rat(10, 100)]

categories ==
    [vegetables |-> {"potato", "tomato", "onion", "cabbage"},
     cereals |-> {"wheat", "rice", "corn", "barley", "millet"},
     pulses |-> {"soybean", "chickpea", "lentil", "groundnut"},
     cash_crops |-> {"cotton", "sugarcane", "mustard", "sunflower"}]

_get_crop_category(crop) ==
    IF \E category \in DOMAIN categories : crop \in categories[category]
        THEN CHOOSE category \in DOMAIN categories : crop \in categories[category]
    ELSE "cereals"

trends ==
    [wheat |-> Rat(5, 100), rice |-> Rat(3, 100), potato |-> Rat(8, 100),
     tomato |-> Rat(10, 100), cotton |-> Rat(6, 100), soybean |-> Rat(7, 100)]

\* market_factor is the value of random.uniform(-0.03, 0.03).
_calculate_price_trend(crop, market_factor) ==
    RAdd(Get(trends, crop, Rat(5, 100)), market_factor)

\* datetime: a date is [year, month, day].
IsLeap(year) == year % 4 = 0 /\ (year % 100 # 0 \/ year % 400 = 0)

DaysInMonth(year, month) ==
    IF month = 2 THEN (IF IsLeap(year) THEN 29 ELSE 28)
    ELSE IF month \in {4, 6, 9, 11} THEN 30
    ELSE 31

\* date + timedelta(days=n), n >= 0
RECURSIVE AddDays(_, _)
AddDays(date, n) ==
    LET left == DaysInMonth(date.year, date.month) - date.day
    IN  IF n <= left THEN [date EXCEPT !.day = @ + n]
        ELSE AddDays([year |-> IF date.month = 12 THEN date.year + 1
                               ELSE date.year,
                      month |-> IF date.month = 12 THEN 1 ELSE date.month + 1,
                      day |-> 1],
                     n - left - 1)

\* The price after the trend has been applied month times:
\* price *= (1 + trend/12), once per pass of the loop.
RECURSIVE trended_price(_, _, _)
trended_price(current_price, trend, month) ==
    IF month = 0 THEN current_price
    ELSE FMul(trended_price(current_price, trend, month - 1),
              RAdd(Num(1), FDivInt(trend, 12)))

\* The floor of 0.5 forgotten.
confidence_unfloored(month) == RSub(Num(1), RMul(Num(month), Rat(1, 10)))

\* max(0.5, 1.0 - month * 0.1)
confidence(month) ==
    RMax(Rat(5, 10), RSub(Num(1), RMul(Num(month), Rat(1, 10))))

\* The range taken around the price before the seasonal effect.
prediction_around_price(crop, price, month, future_date, volatility_) ==
    LET seasonal_multiplier == seasonal_multiplier_of(crop, future_date.month)
        seasonal_price == FMul(price, seasonal_multiplier)
        uncertainty == RMul(RMul(volatility_, Num(month)), Rat(1, 10))
        min_price == FMul(price, RSub(Num(1), uncertainty))
        max_price == FMul(price, RAdd(Num(1), uncertainty))
    IN  [month |-> month,
         date |-> <<future_date.year, future_date.month>>,
         predicted_price |-> Round(seasonal_price, 2),
         min_price |-> Round(min_price, 2),
         max_price |-> Round(max_price, 2),
         confidence |-> confidence(month)]

\* One pass of the loop of _generate_future_predictions, after the trend has
\* been applied to price.
prediction(crop, price, month, future_date, volatility_) ==
    LET seasonal_multiplier == seasonal_multiplier_of(crop, future_date.month)
        seasonal_price == FMul(price, seasonal_multiplier)
        uncertainty == RMul(RMul(volatility_, Num(month)), Rat(1, 10))
        min_price == FMul(seasonal_price, RSub(Num(1), uncertainty))
        max_price == FMul(seasonal_price, RAdd(Num(1), uncertainty))
    IN  [month |-> month,
         date |-> <<future_date.year, future_date.month>>,
         predicted_price |-> Round(seasonal_price, 2),
         min_price |-> Round(min_price, 2),
         max_price |-> Round(max_price, 2),
         confidence |-> confidence(month)]

\* now is datetime.now(), market_factor the random part of the trend.
_generate_future_predictions(crop, current_price, months_ahead, now, market_factor) ==
    LET base_date == now
        trend == _calculate_price_trend(crop, market_factor)
        category == _get_crop_category(crop)
        volatility_ == Get(volatility, category, Rat(10, 100))
    IN  [month \in 1..months_ahead |->
            prediction(crop, trended_price(current_price, trend, month), month,
                       AddDays(base_date, 30 * month), volatility_)]

\* The part of the analysis that is computed from the future predictions.
\* historical_trend_percent, volatility_score and price_stability come from
\* the synthetic history, a walk of 180 random steps, and are left out.
_analyze_market_trends(crop, future) ==
    LET current_price == Num(current_prices[crop])
        future_trend ==
            IF Len(future) >= 2
                THEN RMul(RDiv(RSub(future[Len(future)].predicted_price,
                                    current_price),
                               current_price),
                          Num(100))
            ELSE Num(0)
        sentiment == IF RGt(future_trend, Num(10)) THEN "Bullish"
                     ELSE IF RLt(future_trend, Num(-10)) THEN "Bearish"
                     ELSE "Neutral"
    IN  [future_trend_percent |-> Round(future_trend, 2),
         market_sentiment |-> sentiment]

\* risk_level is decided by the volatility score of the history and is left
\* out with it.
_get_market_recommendation(crop, analysis) ==
    LET future_trend == analysis.future_trend_percent
        action == IF RGt(future_trend, Num(5)) THEN "HOLD/BUY"
                  ELSE IF RLt(future_trend, Num(-5)) THEN "SELL"
                  ELSE "MONITOR"
    IN  [action |-> action,
         confidence |-> IF RGt(RAbs(future_trend), Num(8)) THEN "High"
                        ELSE IF RGt(RAbs(future_trend), Num(3)) THEN "Medium"
                        ELSE "Low"]

\* predict_prices(crop, months_ahead) with planting_date None, so that
\* harvest_impact is the empty dict.  historical_data is left out.
predict_prices(crop, months_ahead, now, market_factor) ==
    IF crop \notin DOMAIN current_prices
        THEN [raised |-> "none",
              error |-> <<"Price data not available for", crop>>]
    ELSE
    LET current_price == Num(current_prices[crop])
        future_predictions ==
            _generate_future_predictions(crop, current_price, months_ahead,
                                         now, market_factor)
        market_analysis == _analyze_market_trends(crop, future_predictions)
    IN  [raised |-> "none",
         crop |-> crop,
         current_price |-> current_price,
         future_predictions |-> future_predictions,
         harvest_impact |-> <<>>,
         market_analysis |-> market_analysis,
         recommendation |-> _get_market_recommendation(crop, market_analysis)]

\* The label with the breakpoint of 'High' at 100.
profitability_of_high100(roi) ==
    IF RGt(roi, Num(100)) THEN "High"
    ELSE IF RGt(roi, Num(20)) THEN "Medium"
    ELSE IF RGt(roi, Num(0)) THEN "Low"
    ELSE "Loss"

\* 'High' if roi > 50 else 'Medium' if roi > 20 else 'Low' if roi > 0 else
\* 'Loss'
profitability_of(roi) ==
    IF RGt(roi, Num(50)) THEN "High"
    ELSE IF RGt(roi, Num(20)) THEN "Medium"
    ELSE IF RGt(roi, Num(0)) THEN "Low"
    ELSE "Loss"

\* selling_month is <<>> for None and <<m>> for the integer m.
selling_price_of(crop, selling_month) ==
    IF selling_month # <<>> /\ selling_month[1] # 0
           /\ 1 <= selling_month[1] /\ selling_month[1] <= 12
    THEN RMul(Num(current_prices[crop]),
              seasonal_multiplier_of(crop, selling_month[1]))
    ELSE Num(current_prices[crop])

calculate_profitability(crop, area_hectares, selling_month) ==
    IF crop \notin DOMAIN current_prices THEN KeyError
    ELSE
    LET typical_yield == typical_yields[crop]
        cultivation_cost == cultivation_costs[crop]
        selling_price == selling_price_of(crop, selling_month)
        total_production == RMul(Num(typical_yield), area_hectares)
        total_revenue == RMul(total_production, selling_price)
        total_cost == RMul(Num(cultivation_cost), area_hectares)
        net_profit == RSub(total_revenue, total_cost)
        profit_margin ==
            IF RGt(total_revenue, Num(0))
            THEN RMul(RDiv(net_profit, total_revenue), Num(100)) ELSE Num(0)
        roi == IF RGt(total_cost, Num(0))
               THEN RMul(RDiv(net_profit, total_cost), Num(100)) ELSE Num(0)
    IN  [raised |-> "none",
         crop |-> crop,
         area_hectares |-> area_hectares,
         expected_yield |-> total_production,
         selling_price_per_quintal |-> selling_price,
         total_revenue |-> Round(total_revenue, 2),
         total_cost |-> Round(total_cost, 2),
         net_profit |-> Round(net_profit, 2),
         profit_margin_percent |-> Round(profit_margin, 2),
         roi_percent |-> Round(roi, 2),
         breakeven_price |->
             Round(Rat(cultivation_cost, typical_yield), 2),
         profitability |-> profitability_of(roi)]

----------------------------------------------------------------------------
(* models/crop_rotation.py : CropRotationModel                              *)

CropData(soil_min, season, category, nitrogen_need, water_need) ==
    [soil_min |-> soil_min, season |-> season, category |-> category,
     nitrogen_need |-> nitrogen_need, water_need |-> water_need]

crop_database ==
    [wheat     |-> CropData(6, "winter", "cereals", "medium", "medium"),
     rice      |-> CropData(7, "monsoon", "cereals", "high", "high"),
     corn      |-> CropData(6, "monsoon", "cereals", "high", "medium"),
     barley    |-> CropData(5, "winter", "cereals", "medium", "low"),
     millet    |-> CropData(4, "monsoon", "cereals", "low", "low"),
     soybean   |-> CropData(6, "monsoon", "legumes", "low", "medium"),
     chickpea  |-> CropData(6, "winter", "legumes", "low", "low"),
     lentil    |-> CropData(6, "winter", "legumes", "low", "low"),
     groundnut |-> CropData(5, "monsoon", "legumes", "low", "medium"),
     potato    |-> CropData(6, "winter", "vegetables", "medium", "medium"),
     tomato    |-> CropData(7, "all", "vegetables", "high", "high"),
     onion     |-> CropData(6, "winter", "vegetables", "medium", "medium"),
     cabbage   |-> CropData(6, "winter", "vegetables", "medium", "medium"),
     cotton    |-> CropData(6, "monsoon", "cash_crops", "high", "medium"),
     sugarcane |-> CropData(7, "all", "cash_crops", "high", "high"),
     mustard   |-> CropData(5, "winter", "oilseeds", "medium", "low"),
     sunflower |-> CropData(5, "winter", "oilseeds", "medium", "medium")]

\* The order in which self.crop_database.items() yields the crops.
crop_database_keys ==
    <<"wheat", "rice", "corn", "barley", "millet", "soybean", "chickpea",
      "lentil", "groundnut", "potato", "tomato", "onion", "cabbage", "cotton",
      "sugarcane", "mustard", "sunflower">>

rotation_benefits ==
    [cereals |-> {"legumes", "oilseeds", "vegetables"},
     legumes |-> {"cereals", "cash_crops", "vegetables"},
     oilseeds |-> {"cereals", "legumes", "vegetables"},
     vegetables |-> {"cereals", "legumes", "oilseeds"},
     cash_crops |-> {"legumes", "cereals", "oilseeds"}]

\* Monsoon crops filed under summer as well.
seasons_summer_monsoon ==
    [winter |-> {"winter", "all"}, monsoon |-> {"monsoon", "all"},
     summer |-> {"summer", "monsoon", "all"}]

seasons ==
    [winter |-> {"winter", "all"}, monsoon |-> {"monsoon", "all"},
     summer |-> {"summer", "all"}]

\* self.crop_database.get(crop, {}).get('category', default)
category_of(crop, default) ==
    IF crop \in DOMAIN crop_database THEN crop_database[crop].category
    ELSE default

_get_rotation_benefit(current_category, next_category) ==
    CASE current_category = "cereals" /\ next_category = "legumes" ->
            "Legumes fix nitrogen, reducing fertilizer needs for next cereal crop"
      [] current_category = "legumes" /\ next_category = "cereals" ->
            "Cereals utilize nitrogen fixed by previous legume crop"
      [] current_category = "cereals" /\ next_category = "oilseeds" ->
            "Different root systems improve soil structure"
      [] current_category = "vegetables" /\ next_category = "cereals" ->
            "Rotation breaks pest cycles common in vegetable crops"
      [] current_category = "cash_crops" /\ next_category = "legumes" ->
            "Legumes restore soil fertility after nutrient-intensive cash crops"
      [] current_category = "oilseeds" /\ next_category = "cereals" ->
            "Oilseeds improve soil organic matter for cereal production"
      [] OTHER -> "Crop rotation improves soil health and breaks pest cycles"

\* The entry appended to suitable_crops for a crop that passed the filter.
suitable_crop(crop, current_category, beneficial_categories, soil_quality) ==
    LET data == crop_database[crop]
        benefit_score == IF data.category \in beneficial_categories THEN 3
                         ELSE IF data.category = current_category THEN 1
                         ELSE 2
        soil_match ==
            RMin(Num(10), RAdd(RSub(soil_quality, Num(data.soil_min)), Num(5)))
        total_score == RAdd(Num(benefit_score * 2), soil_match)
    IN  [crop |-> crop,
         category |-> data.category,
         suitability_score |-> total_score,
         rotation_benefit |->
             _get_rotation_benefit(current_category, data.category),
         soil_requirement |-> data.soil_min,
         water_need |-> data.water_need,
         nitrogen_need |-> data.nitrogen_need]

\* suitable_crops.sort(key=suitability_score, reverse=True): the highest
\* score first, equal scores in the order they had in the list.
RECURSIVE sort_by_suitability(_)
sort_by_suitability(crops) ==
    IF crops = <<>> THEN <<>>
    ELSE LET first ==
                 CHOOSE i \in DOMAIN crops :
                     /\ \A j \in DOMAIN crops :
                            RLe(crops[j].suitability_score,
                                crops[i].suitability_score)
                     /\ \A j \in 1..(i - 1) :
                            RLt(crops[j].suitability_score,
                                crops[i].suitability_score)
         IN  <<crops[first]>>
                 \o sort_by_suitability(SubSeq(crops, 1, first - 1)
                                       \o SubSeq(crops, first + 1, Len(crops)))

\* The recommendations of suggest_crop_rotation.
top_recommendations(current_crop, soil_quality, season) ==
    LET current_category == category_of(current_crop, "unknown")
        beneficial_categories ==
            Get(rotation_benefits, current_category, {"cereals", "legumes"})
        passed ==
            SelectSeq(crop_database_keys,
                      LAMBDA crop :
                          /\ crop_database[crop].season
                                 \in Get(seasons, season, {season})
                          /\ RLe(Num(crop_database[crop].soil_min),
                                 RAdd(soil_quality, Num(2))))
        suitable_crops ==
            [i \in DOMAIN passed |->
                suitable_crop(passed[i], current_category,
                              beneficial_categories, soil_quality)]
        sorted == sort_by_suitability(suitable_crops)
    IN  SubSeq(sorted, 1, IF Len(sorted) < 5 THEN Len(sorted) ELSE 5)

\* The crops random.choice picks the third crop of the plan from.
\* The options without the exclusion of the two crops already planned.
third_options_any(current_crop, next_crop) ==
    LET next_category == category_of(next_crop, "cereals")
    IN  SelectSeq(crop_database_keys,
                  LAMBDA crop :
                      crop_database[crop].category
                          \in Get(rotation_benefits, next_category,
                                  {"cereals"}))

third_options(current_crop, next_crop) ==
    LET next_category == category_of(next_crop, "cereals")
    IN  SelectSeq(crop_database_keys,
                  LAMBDA crop :
                      /\ crop_database[crop].category
                             \in Get(rotation_benefits, next_category,
                                     {"cereals"})
                      /\ crop \notin {current_crop, next_crop})

\* third_crop is the value of random.choice(third_options), or 'wheat' when
\* there are no options.
_generate_rotation_plan(current_crop, next_crop, third_crop) ==
    <<[year |-> 1, season |-> "Current", crop |-> current_crop,
       purpose |-> "Current cultivation"],
      [year |-> 1, season |-> "Next", crop |-> next_crop,
       purpose |-> "Recommended rotation crop"],
      [year |-> 2, season |-> "Following", crop |-> third_crop,
       purpose |-> "Complete rotation cycle"]>>

\* The crop the plan is generated for.
next_crop_of(recommendations) ==
    IF recommendations # <<>> THEN recommendations[1].crop ELSE "wheat"

suggest_crop_rotation(current_crop, soil_quality, season, area_hectares, third_crop) ==
    LET recommendations == top_recommendations(current_crop, soil_quality, season)
    IN  [raised |-> "none",
         current_crop |-> current_crop,
         current_category |-> category_of(current_crop, "unknown"),
         recommendations |-> recommendations,
         rotation_plan |->
             _generate_rotation_plan(current_crop,
                                     next_crop_of(recommendations), third_crop),
         season |-> season,
         soil_quality |-> soil_quality]

----------------------------------------------------------------------------
(* models/chatbot.py : AgriculturalChatbot                                  *)

\* A Python str is the sequence of its pieces; '' is the empty sequence and
\* " " is a piece of whitespace.
RECURSIVE LStrip(_)
LStrip(text) ==
    IF text # <<>> /\ Head(text) = " " THEN LStrip(Tail(text)) ELSE text

RECURSIVE RStrip(_)
RStrip(text) ==
    IF text # <<>> /\ text[Len(text)] = " "
        THEN RStrip(SubSeq(text, 1, Len(text) - 1))
    ELSE text

\* str.strip()
Strip(text) == RStrip(LStrip(text))

default_model == "llama2"

fallback_responses ==
    [weather |->
        <<"Weather is crucial for farming. Monitor temperature, rainfall, and humidity regularly.",
          "Check local weather forecasts daily to plan irrigation and field activities.",
          "Extreme weather can damage crops - prepare protective measures in advance.">>,
     soil |->
        <<"Good soil health is the foundation of successful farming. Test pH and nutrients regularly.",
          "Maintain soil pH between 6.0-7.5 for most crops. Add lime if too acidic, sulfur if too alkaline.",
          "Organic matter improves soil structure. Add compost or well-rotted manure annually.">>,
     irrigation |->
        <<"Water crops early morning or late evening to reduce evaporation losses.",
          "Check soil moisture before irrigating. Overwatering can be as harmful as underwatering.",
          "Drip irrigation is most efficient, saving 30-50% water compared to flood irrigation.">>,
     fertilizer |->
        <<"Apply fertilizers based on soil test results. Avoid over-fertilization.",
          "Nitrogen promotes leaf growth, phosphorus helps roots, potassium improves disease resistance.",
          "Organic fertilizers release nutrients slowly and improve soil health long-term.">>,
     pest |->
        <<"Regular field inspection helps detect pest problems early when they're easier to control.",
          "Use integrated pest management (IPM) - combine biological, cultural, and chemical methods.",
          "Encourage beneficial insects by planting diverse crops and avoiding broad-spectrum pesticides.">>,
     crop |->
        <<"Choose crops suitable for your climate, soil type, and market demand.",
          "Rotate crops to break pest cycles and maintain soil fertility.",
          "Plant disease-resistant varieties when available to reduce pesticide use.">>,
     market |->
        <<"Study market prices and demand before deciding what crops to grow.",
          "Diversify crops to spread risk and ensure steady income throughout the year.",
          "Consider value-addition like processing or direct marketing for better profits.">>,
     general |->
        <<"Farming success depends on good planning, regular monitoring, and timely actions.",
          "Keep detailed records of activities, inputs, and yields to improve decision-making.",
          "Stay updated with latest agricultural techniques and government schemes.",
          "Join farmer groups or cooperatives for better access to inputs and markets.">>]

\* The keywords of each topic, and the order of the topics in the dict.
topic_keywords ==
    [weather |-> {"weather", "rain", "temperature", "climate", "season"},
     soil |-> {"soil", "ph", "nutrient", "fertilizer", "compost", "organic"},
     irrigation |-> {"water", "irrigation", "moisture", "drought", "watering"},
     pest |-> {"pest", "insect", "disease", "fungus", "spray", "control"},
     crop |-> {"crop", "plant", "seed", "variety", "cultivation", "harvest"},
     market |-> {"price", "market", "sell", "profit", "cost", "economics"}]

topic_order == <<"weather", "soil", "irrigation", "pest", "crop", "market">>

\* The phrases and their advice, in the order of the dict.
specific_responses ==
    <<<<"when to plant",
        "Plant timing depends on your location and crop. Kharif crops (June-July), Rabi crops (October-December), Zaid crops (March-April).">>,
      <<"how much water",
        "Water requirements vary by crop and growth stage. Generally, 2-3 inches per week during growing season.">>,
      <<"fertilizer amount",
        "Apply fertilizers based on soil test. Typical NPK ratio: 4:2:1 for most crops.">>,
      <<"pest control",
        "Use IPM approach: monitor regularly, use biological controls first, chemicals as last resort.">>,
      <<"soil preparation",
        "Plow 2-3 times, add organic matter, level the field, and ensure proper drainage.">>,
      <<"harvest time",
        "Harvest when crops reach physiological maturity. Look for color change, moisture content, and field drying.">>>>

\* user_input is the text with the keywords and phrases that occur in
\* user_input.lower().  The topic is the first one of the highest score.
_identify_topic(user_input) ==
    LET score(topic) ==
            Cardinality(topic_keywords[topic] \cap user_input.keywords)
        scored == SelectSeq(topic_order, LAMBDA topic : score(topic) > 0)
    IN  IF scored # <<>>
            THEN scored[CHOOSE i \in DOMAIN scored :
                            /\ \A j \in DOMAIN scored :
                                   score(scored[j]) <= score(scored[i])
                            /\ \A j \in 1..(i - 1) :
                                   score(scored[j]) < score(scored[i])]
        ELSE "general"

\* context is <<>> for None and for an empty dict.
_add_contextual_info(topic, context) ==
    IF context = <<>> THEN <<>>
    ELSE
    LET irrigation_info ==
            IF topic = "irrigation" /\ "soil" \in DOMAIN context
            THEN LET moisture == Get(context.soil, "moisture", 0)
                 IN  IF moisture < 30
                         THEN <<"Your current soil moisture is ",
                                ToString(moisture),
                                "% - irrigation is needed soon.">>
                     ELSE IF moisture > 70
                         THEN <<"Your soil moisture is ", ToString(moisture),
                                "% - no irrigation needed currently.">>
                     ELSE <<>>
            ELSE <<>>
        weather_info ==
            IF topic = "weather" /\ "weather" \in DOMAIN context
            THEN LET temp == Get(context.weather, "temperature", 0)
                 IN  IF temp > 35
                         THEN <<"High temperature detected - ensure adequate irrigation and shade.">>
                     ELSE IF temp < 10
                         THEN <<"Low temperature - protect crops from frost damage.">>
                     ELSE <<>>
            ELSE <<>>
        soil_info ==
            IF topic = "soil" /\ "soil" \in DOMAIN context
            THEN LET ph == Get(context.soil, "ph", 7)
                 IN  IF ph < 6
                         THEN <<"Your soil pH is ", ToString(ph),
                                " (acidic) - consider adding lime.">>
                     ELSE IF ph > 8
                         THEN <<"Your soil pH is ", ToString(ph),
                                " (alkaline) - consider adding sulfur.">>
                     ELSE <<>>
            ELSE <<>>
    IN  irrigation_info \o weather_info \o soil_info

_get_specific_advice(user_input, topic) ==
    LET found == SelectSeq(specific_responses,
                           LAMBDA entry : entry[1] \in user_input.phrases)
    IN  IF found # <<>> THEN <<found[1][2]>> ELSE <<>>

\* choice is the index random.choice picks among the topic's responses.
_get_fallback_response(user_input, context, choice) ==
    LET topic == _identify_topic(user_input)
        base_responses ==
            Get(fallback_responses, topic, fallback_responses.general)
        base_response == <<base_responses[choice]>>
        contextual_info == _add_contextual_info(topic, context)
        specific_advice == _get_specific_advice(user_input, topic)
    IN  base_response
            \o (IF contextual_info # <<>>
                    THEN <<"\n\n">> \o contextual_info ELSE <<>>)
            \o (IF specific_advice # <<>>
                    THEN <<"\n\nSpecific advice: ">> \o specific_advice
                ELSE <<>>)

\* The body of a completion response is usable when it decodes to a JSON
\* object whose 'response' is a string or is absent; response.json() raises
\* on a body that is not JSON, result.get on a JSON array and .strip() on a
\* value that is not a string.
UsableBody(body) == body.kind \in {"object", "object_without_response"}

\* Any status counts as an answer.
_try_ollama_response_any_status(model, service) ==
    LET model_name == IF model # <<>> THEN model[1] ELSE default_model
    IN  CASE service.kind = "RequestException" ->
                 [success |-> FALSE,
                  error |-> <<"Connection error: ", service.message>>]
          [] service.kind = "Exception" ->
                 [success |-> FALSE,
                  error |-> <<"Unexpected error: ", service.message>>]
          [] service.kind = "response" /\ ~UsableBody(service.body) ->
                 [success |-> FALSE,
                  error |-> <<"Unexpected error: ", service.body.kind>>]
          [] OTHER ->
                 [response |->
                      Strip(IF service.body.kind = "object"
                                THEN service.body.response ELSE <<>>),
                  source |-> "ollama",
                  success |-> TRUE,
                  model_used |-> model_name,
                  confidence |-> Rat(9, 10)]

\* service is what requests.post does during the call: it raises, or it
\* returns a response with a status code and a body.  The prompt only
\* travels in the payload.
_try_ollama_response(model, service) ==
    LET model_name == IF model # <<>> THEN model[1] ELSE default_model
    IN  CASE service.kind = "RequestException" ->
                 [success |-> FALSE,
                  error |-> <<"Connection error: ", service.message>>]
          [] service.kind = "Exception" ->
                 [success |-> FALSE,
                  error |-> <<"Unexpected error: ", service.message>>]
          [] service.kind = "response" /\ service.status_code # 200 ->
                 [success |-> FALSE,
                  error |-> <<"HTTP ", ToString(service.status_code)>>]
          [] service.kind = "response" /\ ~UsableBody(service.body) ->
                 [success |-> FALSE,
                  error |-> <<"Unexpected error: ", service.body.kind>>]
          [] OTHER ->
                 [response |->
                      Strip(IF service.body.kind = "object"
                                THEN service.body.response ELSE <<>>),
                  source |-> "ollama",
                  success |-> TRUE,
                  model_used |-> model_name,
                  confidence |-> Rat(9, 10)]

get_response(user_input, model, context, service, choice) ==
    LET ollama_response == _try_ollama_response(model, service)
    IN  IF ollama_response.success
            THEN [raised |-> "none"] @@ ollama_response
        ELSE [raised |-> "none",
              response |-> _get_fallback_response(user_input, context, choice),
              source |-> "fallback",
              success |-> TRUE,
              model_used |-> "rule_based",
              confidence |-> Rat(7, 10)]

----------------------------------------------------------------------------
(* streamlit_app.py : live prices                                           *)

\* The price of each crop; the other fields of an entry (yield, cost, season,
\* difficulty) are not read by the price functions.
CROP_DATABASE ==
    [cereals |->
         [wheat |-> [price |-> 2200], rice |-> [price |-> 2800],
          corn |-> [price |-> 1800], barley |-> [price |-> 1900],
          oats |-> [price |-> 2100], millet |-> [price |-> 2500],
          sorghum |-> [price |-> 2000]],
     legumes |->
         [soybean |-> [price |-> 4500], chickpea |-> [price |-> 5500],
          lentil |-> [price |-> 6000], black_gram |-> [price |-> 7000],
          green_gram |-> [price |-> 6500],
          pigeon_pea |-> [price |-> 5800],
          field_pea |-> [price |-> 4800]],
     vegetables |->
         [potato |-> [price |-> 1200], tomato |-> [price |-> 1500],
          onion |-> [price |-> 1800], cabbage |-> [price |-> 800],
          cauliflower |-> [price |-> 1000],
          brinjal |-> [price |-> 1200], okra |-> [price |-> 1500],
          chili |-> [price |-> 8000], cucumber |-> [price |-> 1000],
          watermelon |-> [price |-> 800]],
     cash_crops |->
         [sugarcane |-> [price |-> 350], cotton |-> [price |-> 5500],
          jute |-> [price |-> 4200], tobacco |-> [price |-> 15000]],
     oilseeds |->
         [mustard |-> [price |-> 5200], groundnut |-> [price |-> 5800],
          sunflower |-> [price |-> 6000], sesame |-> [price |-> 8000],
          safflower |-> [price |-> 5500], castor |-> [price |-> 5000]],
     spices |->
         [turmeric |-> [price |-> 8500], ginger |-> [price |-> 12000],
          coriander |-> [price |-> 7000],
          fenugreek |-> [price |-> 6500], cumin |-> [price |-> 25000]],
     fruits |->
         [banana |-> [price |-> 2000], papaya |-> [price |-> 1500],
          guava |-> [price |-> 1800]]]

Crops == UNION {DOMAIN CROP_DATABASE[category] : category \in DOMAIN CROP_DATABASE}

base_price_of(crop) ==
    LET category == CHOOSE c \in DOMAIN CROP_DATABASE : crop \in DOMAIN CROP_DATABASE[c]
    IN  CROP_DATABASE[category][crop].price

\* int() of a non-negative float.
Truncate(x) == x[1] \div x[2]

\* int() of a product that is a whole number in exact arithmetic but was
\* computed with a factor that has no exact float: the float is the whole
\* number or the float next below it.
TruncateProduct(x, exact) ==
    IF ~exact /\ x[2] = 1 /\ fp = "down" /\ x[1] > 0 THEN x[1] - 1
    ELSE Truncate(x)

\* A value of random.uniform(low, high) is one of two floats of the range
\* that are exact in binary; uniform says which.
get_market_volatility_factor(crop_name, uniform) ==
    IF crop_name \in {"tomato", "onion", "chili"}
        THEN IF uniform = "low" THEN Rat(7, 8) ELSE Rat(9, 8)
    ELSE IF uniform = "low" THEN Num(1) ELSE Rat(33, 32)

patterns ==
    [wheat |-> [m \in {3, 4, 10, 11} |->
                   CASE m = 3 -> Rat(92, 100) [] m = 4 -> Rat(90, 100)
                     [] m = 10 -> Rat(105, 100) [] m = 11 -> Rat(108, 100)],
     rice |-> [m \in {10, 11, 6, 7} |->
                  CASE m = 10 -> Rat(88, 100) [] m = 11 -> Rat(85, 100)
                    [] m = 6 -> Rat(110, 100) [] m = 7 -> Rat(115, 100)],
     tomato |-> [m \in {12, 1, 6, 7} |->
                    CASE m = 12 -> Rat(120, 100) [] m = 1 -> Rat(125, 100)
                      [] m = 6 -> Rat(80, 100) [] m = 7 -> Rat(75, 100)]]

get_seasonal_price_factor(crop_name, month) ==
    IF crop_name \in DOMAIN patterns /\ month \in DOMAIN patterns[crop_name]
        THEN patterns[crop_name][month]
    ELSE Num(1)

\* month is datetime.now().month; market_trend is the pick of random.choice.
get_enhanced_simulated_prices(month, market_trend, uniform) ==
    LET monsoon_factor == IF uniform = "low" THEN Num(1) ELSE Rat(9, 8)
        festival_factor ==
            IF month \in {10, 11}
                THEN IF uniform = "low" THEN Num(1) ELSE Rat(17, 16)
            ELSE Num(1)
        trend_factor ==
            CASE market_trend = "bullish" ->
                     IF uniform = "low" THEN Rat(33, 32) ELSE Rat(17, 16)
              [] market_trend = "bearish" ->
                     IF uniform = "low" THEN Rat(15, 16) ELSE Rat(31, 32)
              [] market_trend = "stable" ->
                     IF uniform = "low" THEN Rat(63, 64) ELSE Rat(65, 64)
    IN  [crop \in Crops |->
            LET seasonal_factor == get_seasonal_price_factor(crop, month)
                final_price ==
                    RMul(RMul(RMul(RMul(Num(base_price_of(crop)), trend_factor),
                                   seasonal_factor),
                              monsoon_factor),
                         festival_factor)
            IN  TruncateProduct(final_price, seasonal_factor = Num(1))]

\* str.lower() of the commodity names the responses carry.
Lower(text) == IF text = "Wheat" THEN "wheat" ELSE text

\* A JSON value for a price is [int |-> n], [float |-> x] or [str |-> text].
\* Truth value of a price.
Truthy(price) ==
    IF "int" \in DOMAIN price THEN price.int # 0
    ELSE IF "float" \in DOMAIN price THEN price.float # Num(0)
    ELSE price.str # ""

\* int(price): a str has to be the text of an integer.
int_of(price) ==
    IF "int" \in DOMAIN price THEN [raised |-> "none", value |-> price.int]
    ELSE IF "float" \in DOMAIN price
        THEN [raised |-> "none", value |-> Truncate(price.float)]
    ELSE IF price.str = "2350" THEN [raised |-> "none", value |-> 2350]
    ELSE [raised |-> "ValueError"]

\* int(float(price)): a str has to be the text of a number.
int_of_float(price) ==
    IF "int" \in DOMAIN price THEN [raised |-> "none", value |-> price.int]
    ELSE IF "float" \in DOMAIN price
        THEN [raised |-> "none", value |-> Truncate(price.float)]
    ELSE IF price.str = "2350" THEN [raised |-> "none", value |-> 2350]
    ELSE IF price.str = "3100.50" THEN [raised |-> "none", value |-> 3100]
    ELSE [raised |-> "ValueError"]

\* live_prices[crop_name] = price
Put(live_prices, crop_name, price) ==
    [crop \in DOMAIN live_prices \cup {crop_name} |->
        IF crop = crop_name THEN price ELSE live_prices[crop]]

\* The loop over the items of the eNAM response.
RECURSIVE enam_items(_, _)
enam_items(items, live_prices) ==
    IF items = <<>> THEN [raised |-> "none", live_prices |-> live_prices]
    ELSE LET item == Head(items)
             crop_name == Lower(Get(item, "commodity", ""))
             price == Get(item, "modal_price", [int |-> 0])
         IN  IF crop_name # "" /\ Truthy(price)
                 THEN LET converted == int_of(price)
                      IN  IF converted.raised # "none" THEN converted
                          ELSE enam_items(Tail(items),
                                   Put(live_prices, crop_name, converted.value))
             ELSE enam_items(Tail(items), live_prices)

\* The loop over the records of the Agmarknet response.
RECURSIVE agmarknet_records(_, _)
agmarknet_records(records, live_prices) ==
    IF records = <<>> THEN [raised |-> "none", live_prices |-> live_prices]
    ELSE LET record == Head(records)
             crop_name == Lower(Get(record, "commodity", ""))
             price == Get(record, "modal_price", [int |-> 0])
         IN  IF crop_name # "" /\ Truthy(price)
                /\ crop_name \notin DOMAIN live_prices
                 THEN LET converted == int_of_float(price)
                      IN  IF converted.raised # "none" THEN converted
                          ELSE agmarknet_records(Tail(records),
                                   Put(live_prices, crop_name, converted.value))
             ELSE agmarknet_records(Tail(records), live_prices)

\* One API of the two: the key test, requests.get, the status test,
\* response.json() and the loop over the list under the API's key.  A
\* response is [key |-> "demo_key"] (no key configured), or has a key and
\* either raises in requests.get or has a status_code and, for 200, a json.
ApiPrices(response, list_key, live_prices) ==
    IF response.key = "demo_key"
        THEN [raised |-> "none", live_prices |-> live_prices]
    ELSE IF "raises" \in DOMAIN response THEN [raised |-> response.raises]
    ELSE IF response.status_code # 200
        THEN [raised |-> "none", live_prices |-> live_prices]
    ELSE IF response.json.type = "invalid" THEN [raised |-> "JSONDecodeError"]
    ELSE IF response.json.type # "dict" THEN [raised |-> "AttributeError"]
    ELSE LET list == Get(response.json.value, list_key, <<>>)
         IN  IF list_key = "data" THEN enam_items(list, live_prices)
             ELSE agmarknet_records(list, live_prices)

\* The prices without the step that fills the missing crops.
get_live_prices_from_api_unfilled(enam, agmarknet, month, market_trend, uniform) ==
    LET none == [crop \in {} |-> 0]
        after_enam == ApiPrices(enam, "data", none)
        after_agmarknet ==
            IF after_enam.raised # "none" THEN after_enam
            ELSE ApiPrices(agmarknet, "records", after_enam.live_prices)
        simulated == get_enhanced_simulated_prices(month, market_trend, uniform)
    IN  IF after_agmarknet.raised # "none"
            THEN [raised |-> "none", live_prices |-> simulated]
        ELSE [raised |-> "none",
              live_prices |-> IF DOMAIN after_agmarknet.live_prices = {}
                                  THEN simulated
                              ELSE after_agmarknet.live_prices]

\* The dict the function returns is the field live_prices.  An exception of
\* the try block is caught and answered with the simulated prices.
get_live_prices_from_api(enam, agmarknet, month, market_trend, uniform) ==
    LET none == [crop \in {} |-> 0]
        after_enam == ApiPrices(enam, "data", none)
        after_agmarknet ==
            IF after_enam.raised # "none" THEN after_enam
            ELSE ApiPrices(agmarknet, "records", after_enam.live_prices)
        simulated == get_enhanced_simulated_prices(month, market_trend, uniform)
    IN  IF after_agmarknet.raised # "none"
            THEN [raised |-> "none", live_prices |-> simulated]
        ELSE LET live_prices ==
                     IF DOMAIN after_agmarknet.live_prices = {} THEN simulated
                     ELSE after_agmarknet.live_prices
             IN  [raised |-> "none",
                  live_prices |->
                      [crop \in DOMAIN live_prices \cup Crops |->
                          IF crop \in DOMAIN live_prices THEN live_prices[crop]
                          ELSE Truncate(RMul(Num(base_price_of(crop)),
                                   get_market_volatility_factor(crop, uniform)))]]

----------------------------------------------------------------------------
(* database/db_manager.py : AgriDB                                          *)

\* The state of agriculture.db: whether the table crops exists, and its rows
\* in the order of their insertion.  instances counts the AgriDB objects
\* constructed so far; the models above never touch either.
NoDatabase == instances = 0 /\ crops_table = [created |-> FALSE, rows |-> <<>>]

\* The rows _create_tables inserts: name, soil_min, season, category, price,
\* yield_qty, cost.
seed_crops ==
    <<<<"wheat", 6, "winter", "cereals", 2200, 45, 35000>>,
      <<"rice", 7, "monsoon", "cereals", 2800, 40, 45000>>,
      <<"corn", 6, "summer", "cereals", 1800, 50, 38000>>,
      <<"potato", 6, "winter", "vegetables", 1200, 250, 60000>>,
      <<"tomato", 6, "summer", "vegetables", 1500, 300, 65000>>,
      <<"cotton", 6, "summer", "cash_crops", 6000, 20, 55000>>,
      <<"soybean", 5, "summer", "legumes", 3800, 25, 32000>>,
      <<"mustard", 5, "winter", "oilseeds", 4800, 15, 32000>>>>

\* A row as the table stores it: the columns price, yield_qty and cost are
\* REAL and hold an integer as a float.
Stored(row) ==
    <<row[1], row[2], row[3], row[4], Num(row[5]), Num(row[6]), Num(row[7])>>

\* CREATE TABLE IF NOT EXISTS crops (name TEXT PRIMARY KEY, ...)
create_table_if_not_exists(table) ==
    IF table.created THEN table ELSE [created |-> TRUE, rows |-> <<>>]

\* INSERT without a key to stop it: the row is appended in every case.
insert_always(rows, row) == Append(rows, Stored(row))

\* INSERT OR IGNORE of one row: a row whose name is in the table already
\* violates the primary key and is skipped.
insert_or_ignore(rows, row) ==
    IF \E i \in DOMAIN rows : rows[i][1] = row[1] THEN rows
    ELSE Append(rows, Stored(row))

\* conn.executemany('INSERT OR IGNORE INTO crops VALUES (?,?,?,?,?,?,?)', crops)
RECURSIVE executemany(_, _)
executemany(rows, new_rows) ==
    IF new_rows = <<>> THEN rows
    ELSE executemany(insert_or_ignore(rows, Head(new_rows)), Tail(new_rows))

_create_tables(table) ==
    LET created == create_table_if_not_exists(table)
    IN  [created |-> TRUE, rows |-> executemany(created.rows, seed_crops)]

\* crop_name is <<>> for None.  An empty name is as good as none: the whole
\* table is returned (field rows); otherwise the first row of that name, or
\* None (field row, <<>> for None).
get_crop_data(table, crop_name) ==
    IF crop_name # <<>> /\ crop_name[1] # ""
        THEN LET found == SelectSeq(table.rows,
                                    LAMBDA row : row[1] = crop_name[1])
             IN  [raised |-> "none",
                  row |-> IF found = <<>> THEN <<>> ELSE <<found[1]>>]
    ELSE [raised |-> "none", rows |-> table.rows]

get_crops_by_season(table, season) ==
    LET found == SelectSeq(table.rows, LAMBDA row : row[3] = season)
    IN  [raised |-> "none", rows |-> [i \in DOMAIN found |-> <<found[i][1]>>]]

----------------------------------------------------------------------------
(* Arguments of the calls.  Each grid starts below the valid range and is  *)
(* as long as its bound says.                                               *)

MaxPh == 6
MaxNitrogen == 7
MaxPhosphorus == 3
MaxPotassium == 4
MaxOrganic == 5
MaxGrade == 80

PhValues ==
    {Rat(17 * i, 10) : i \in 0..MaxPh} \cup {Num(3), Rat(65, 10), Num(10)}

NitrogenValues == {Num(15 * i - 15) : i \in 0..MaxNitrogen}

PhosphorusValues == {Num(35 * i - 35) : i \in 0..MaxPhosphorus}

PotassiumValues == {Num(140 * i - 140) : i \in 0..MaxPotassium}

OrganicValues == {Rat(14 * i - 14, 10) : i \in 0..MaxOrganic}

SoilInputs ==
    [ph : PhValues, nitrogen : NitrogenValues, phosphorus : PhosphorusValues,
     potassium : PotassiumValues, organic_matter : OrganicValues]

GradeBoundaries == {Num(4), Rat(55, 10), Num(7), Rat(85, 10)}

\* Scores to four decimals: a coarse grid, and each boundary with its two
\* neighbours.
GradeInputs ==
    {Rat(i, 8) : i \in 0..MaxGrade}
        \cup {RAdd(b, Rat(e, 10000)) : b \in GradeBoundaries, e \in {-1, 0, 1}}

\* "quinoa", "seedling" and "silt" are in none of the reference tables.
IrrigationCrops == {"wheat", "rice", "tomato", "quinoa"}

MaxMoisture == 6
MaxDays == 3

MoistureValues ==
    {Num(5 + 15 * i) : i \in 0..MaxMoisture}
        \cup {Num(29), Num(30), Rat(301, 10), Rat(501, 10), Num(70),
              Rat(701, 10), Num(90), Rat(901, 10)}

IrrigationInputs ==
    [crop : IrrigationCrops,
     soil_moisture : MoistureValues,
     temperature : {Num(28), Num(60)},
     humidity : {Num(0), Num(60)},
     wind_speed : {Num(5), Num(8)},
     growth_stage : {"vegetative", "flowering", "seedling"},
     soil_type : {"sandy", "loamy", "silt"},
     days_since_rain : {Num(3 * i - 2) : i \in 0..MaxDays}]

MaxSeasonMonths == 4

\* Every method of the efficiency table and one it does not have; seasons of
\* 0, 30, ... days, the default of 120 among them.
WaterBudgetInputs ==
    [crop : IrrigationCrops,
     area_hectares : {Num(0), Num(1), Rat(5, 2)},
     irrigation_method : DOMAIN irrigation_efficiency \cup {"pivot"},
     season_days : {30 * i : i \in 0..MaxSeasonMonths}]

\* "tomato" has a base yield and no requirements; "quinoa" has neither.
YieldCrops == {"wheat", "rice", "tomato", "quinoa"}

MaxSoilQuality == 4
MaxArea == 2
MaxVariability == 2

\* <<nitrogen, phosphorus, potassium>>: none, optimal, nitrogen in excess.
FertilizerValues == {<<0, 0, 0>>, <<120, 60, 80>>, <<240, 0, 80>>}

YieldInputs ==
    {[crop |-> crop, soil_quality |-> soil_quality, rainfall |-> rainfall,
      temperature |-> temperature, humidity |-> humidity,
      nitrogen |-> Num(npk[1]), phosphorus |-> Num(npk[2]),
      potassium |-> Num(npk[3]), area_hectares |-> area_hectares] :
        crop \in YieldCrops,
        soil_quality \in {Num(2 * i) : i \in 0..MaxSoilQuality},
        rainfall \in {Num(50), Num(600), Num(1600)},
        temperature \in {Num(-5), Num(22), Num(45)},
        humidity \in {Num(65), Num(85)},
        npk \in FertilizerValues,
        area_hectares \in {Rat(5 * i, 2) : i \in 0..MaxArea} \cup {Num(1)}}

\* The same arguments without the area, and a soil quality below zero.
YieldPerHectareInputs ==
    {[crop |-> crop, soil_quality |-> soil_quality, rainfall |-> rainfall,
      temperature |-> temperature, humidity |-> humidity,
      nitrogen |-> Num(npk[1]), phosphorus |-> Num(npk[2]),
      potassium |-> Num(npk[3])] :
        crop \in YieldCrops,
        soil_quality \in {Num(2 * i) : i \in 0..MaxSoilQuality} \cup {Num(-10)},
        rainfall \in {Num(50), Num(600), Num(1600)},
        temperature \in {Num(-5), Num(22), Num(45)},
        humidity \in {Num(65), Num(85)},
        npk \in FertilizerValues}

\* Values of random.uniform(0.9, 1.1), both ends among them.
VariabilityValues ==
    {RAdd(Rat(9, 10), Rat(i, 5 * MaxVariability)) : i \in 0..MaxVariability}

MaxSoilFactor == 20

\* Soil qualities to three decimals: a coarse grid, and each breakpoint with
\* its two neighbours.
SoilFactorInputs ==
    {Rat(i, 2) : i \in 0..MaxSoilFactor}
        \cup {RAdd(Num(b), Rat(e, 1000)) : b \in {4, 6, 8}, e \in {-1, 1}}

PriceCrops == {"wheat", "rice", "tomato", "cotton", "lentil", "quinoa"}

MaxMonths == 7
MaxMarketFactor == 2

\* Values of random.uniform(-0.03, 0.03), both ends among them.
MarketFactorValues ==
    {RAdd(Rat(-3, 100), Rat(6 * i, 100 * MaxMarketFactor)) :
        i \in 0..MaxMarketFactor}

\* Values of datetime.now(): a month's first, middle and last days.
NowValues ==
    {[year |-> 2024, month |-> 1, day |-> 31],
     [year |-> 2024, month |-> 2, day |-> 1],
     [year |-> 2025, month |-> 6, day |-> 15],
     [year |-> 2026, month |-> 11, day |-> 3],
     [year |-> 2027, month |-> 12, day |-> 31]}

PriceInputs ==
    [crop : PriceCrops, months_ahead : 0..MaxMonths, now : NowValues]

\* A crop of each price category, with and without a seasonal pattern, and
\* one the tables do not have.
ProfitCrops == {"wheat", "potato", "barley", "lentil", "cotton", "sugarcane",
                "quinoa"}

MaxProfitArea == 4

\* Whole hectares, halves, thirds and sevenths of a hectare, zero among them.
ProfitAreaValues ==
    {Rat(i, d) : i \in 0..MaxProfitArea, d \in {1, 2, 3, 7}}

\* None, the twelve months, and the integers next to them.
SellingMonths == {<<>>} \cup {<<m>> : m \in 0..13}

ProfitInputs ==
    [crop : ProfitCrops, area_hectares : ProfitAreaValues,
     selling_month : SellingMonths]

\* Current crops of every category, and one the database does not have.
RotationCrops == {"wheat", "soybean", "tomato", "cotton", "mustard", "quinoa"}

\* The three seasons of the table, 'all', and one the table does not have.
RotationSeasons == {"winter", "monsoon", "summer", "all", "spring"}

MaxRotationSoil == 5

\* -1, 1.5, 4, 6.5, 9, 11.5: soil_min = soil_quality + 2 at 4, and the cap
\* of soil_match passed at 11.5.
RotationSoilValues == {Rat(5 * i - 2, 2) : i \in 0..MaxRotationSoil}

RotationInputs ==
    [current_crop : RotationCrops, soil_quality : RotationSoilValues,
     season : RotationSeasons, area_hectares : {Num(1), Num(2)}]

\* Questions of every topic and of none, one with two topics of the same
\* score, the empty one among them.
UserInputs ==
    {[text |-> "",
      keywords |-> {},
      phrases |-> {}],
     [text |-> "Hello there",
      keywords |-> {},
      phrases |-> {}],
     [text |-> "How much water does rice need?",
      keywords |-> {"water"},
      phrases |-> {"how much water"}],
     [text |-> "Is my soil pH fine for compost?",
      keywords |-> {"soil", "ph", "compost"},
      phrases |-> {}],
     [text |-> "Pest control for my crop",
      keywords |-> {"pest", "control", "crop"},
      phrases |-> {"pest control"}],
     [text |-> "When is the best price to sell?",
      keywords |-> {"price", "sell"},
      phrases |-> {}],
     [text |-> "Will the weather hurt the harvest?",
      keywords |-> {"weather", "harvest"},
      phrases |-> {}],
     [text |-> "Watering in a drought season",
      keywords |-> {"season", "water", "drought", "watering"},
      phrases |-> {}],
     [text |-> "Soil preparation and harvest time",
      keywords |-> {"soil", "harvest"},
      phrases |-> {"soil preparation", "harvest time"}]}

\* context: None, and dicts with and without the keys the advice reads.
ChatContexts ==
    {<<>>,
     [soil |-> [moisture |-> 20, ph |-> 5]],
     [soil |-> [moisture |-> 80, ph |-> 9], crop |-> "rice"],
     [soil |-> [ph |-> 7]],
     [weather |-> [temperature |-> 40, humidity |-> 60]],
     [weather |-> [temperature |-> 5], soil |-> [moisture |-> 50]]}

\* Bodies of a completion response: a JSON object with a response text,
\* without one, with one that is not a string, a JSON array, and no JSON.
ResponseBodies ==
    {[kind |-> "object", response |-> <<" ", "Irrigate at dawn.", " ">>],
     [kind |-> "object", response |-> <<>>],
     [kind |-> "object_without_response"],
     [kind |-> "object_with_null_response"],
     [kind |-> "array"],
     [kind |-> "not_json"]}

\* What the completion service does: an answer of any status, a timeout or
\* a refused connection, or any other exception.
ServiceOutcomes ==
    [kind : {"response"}, status_code : {200, 404, 500}, body : ResponseBodies]
        \cup [kind : {"RequestException"},
              message : {"Read timed out.", "Connection refused"}]
        \cup [kind : {"Exception"}, message : {"MemoryError"}]

ChatInputs ==
    [user_input : UserInputs, model : {<<>>, <<"mistral">>},
     context : ChatContexts, service : ServiceOutcomes]

Urgencies == {"High", "Medium", "Low", "None", "Drainage"}

MaxDeficit == 8

\* Water deficits from -9.25 mm in steps of 9.25 mm: below and above the
\* floors of the duration, 27.75 / 15 = 1.85 a rounding tie.
DeficitValues == {Rat(37 * i - 37, 4) : i \in 0..MaxDeficit}

MaxRiskTemperature == 10
MaxRiskRainfall == 38

\* Temperatures from -5 in steps of 5 and rainfalls from 0 in steps of 70 mm:
\* every threshold of every crop (10, 15, 30, 35, 40 degrees; 210, 280, 700,
\* 1040, 1300, 2600 mm) is one of the values, with its neighbours.
RiskInputs ==
    [crop : YieldCrops,
     rainfall : {Num(70 * i) : i \in 0..MaxRiskRainfall},
     temperature : {Num(5 * i - 5) : i \in 0..MaxRiskTemperature},
     soil_quality : {Num(4), Num(5), Num(6)}]

MaxRecords == 1

\* Entries of a response: a capitalised name, a price as text with decimals,
\* a crop CROP_DATABASE does not have with a float price, a price of 0, an
\* entry without a name, a price that is no number, and a second price for
\* wheat.
ApiItems ==
    {[commodity |-> "Wheat", modal_price |-> [int |-> 2500]],
     [commodity |-> "rice", modal_price |-> [str |-> "3100.50"]],
     [commodity |-> "dragonfruit", modal_price |-> [float |-> Rat(18051, 20)]],
     [commodity |-> "tomato", modal_price |-> [int |-> 0]],
     [modal_price |-> [int |-> 1200]],
     [commodity |-> "onion", modal_price |-> [str |-> "n/a"]],
     [commodity |-> "wheat", modal_price |-> [str |-> "2350"]]}

ApiLists == UNION {[1..n -> ApiItems] : n \in 0..MaxRecords}

\* The outcomes of one API: no key, requests.get raising, a status other
\* than 200, and 200 with a body that is no JSON, a JSON list, a JSON object
\* without the list, or a JSON object with a list of entries.
ApiOutcomes(list_key) ==
    {[key |-> "demo_key"],
     [key |-> "live", raises |-> "Timeout"],
     [key |-> "live", status_code |-> 503],
     [key |-> "live", status_code |-> 200, json |-> [type |-> "invalid"]],
     [key |-> "live", status_code |-> 200, json |-> [type |-> "list"]],
     [key |-> "live", status_code |-> 200,
      json |-> [type |-> "dict", value |-> [message |-> "ok"]]]}
    \cup {[key |-> "live", status_code |-> 200,
           json |-> [type |-> "dict",
                     value |-> IF list_key = "data" THEN [data |-> list]
                               ELSE [records |-> list]]] :
             list \in ApiLists}

\* The random picks of one call: the market trend and the end of the range
\* every random.uniform takes.
RandomPicks ==
    {[market_trend |-> "bullish", uniform |-> "high"],
     [market_trend |-> "bearish", uniform |-> "low"],
     [market_trend |-> "stable", uniform |-> "low"]}

LivePriceInputs ==
    [enam : ApiOutcomes("data"), agmarknet : ApiOutcomes("records"),
     month : {6, 11}, random : RandomPicks]

MaxScenarios == 2

\* Keyword arguments of a scenario: good and poor soil, with and without
\* the fertilizer arguments.
ScenarioValues ==
    {[soil_quality |-> Num(8), rainfall |-> Num(600), temperature |-> Num(22),
      humidity |-> Num(65)],
     [soil_quality |-> Num(4), rainfall |-> Num(600), temperature |-> Num(22),
      humidity |-> Num(65)],
     [soil_quality |-> Num(8), rainfall |-> Num(50), temperature |-> Num(22),
      humidity |-> Num(65), nitrogen |-> Num(120), phosphorus |-> Num(60),
      potassium |-> Num(80)]}

\* The two ends of the jitter, one pick per prediction.
ScenarioVariabilities == {Rat(9, 10), Rat(11, 10)}

ScenarioInputs ==
    [crop : YieldCrops,
     scenarios : UNION {[1..n -> ScenarioValues] : n \in 0..MaxScenarios}]

\* Every crop of base_frequency and one it does not have.
ScheduleCrops == DOMAIN base_frequency \cup {"quinoa"}

ScheduleInputs ==
    [crop : ScheduleCrops, water_deficit : DeficitValues,
     soil_type : {"sandy", "silt"},
     growth_stage : {"vegetative", "flowering", "grain_filling", "maturity",
                     "seedling"}]

MaxInstances == 8

\* None, the empty name, the eight seeded names and one that is not seeded.
CropNameArgs ==
    {<<>>, <<"">>, <<"quinoa">>}
        \cup {<<seed_crops[i][1]>> : i \in DOMAIN seed_crops}

SeasonArgs == {"winter", "summer", "monsoon", "spring"}

NoResult == [raised |-> "none"]

----------------------------------------------------------------------------
(* The calls.                                                               *)

InitSoil == pc = "call" /\ op = "calculate_soil_quality_score"
            /\ input \in SoilInputs /\ result = NoResult /\ NoDatabase /\ fp \in FloatErrors

CalculateSoilQualityScore ==
    /\ pc = "call"
    /\ op = "calculate_soil_quality_score"
    /\ result' = calculate_soil_quality_score(input.ph, input.nitrogen,
                     input.phosphorus, input.potassium, input.organic_matter)
    /\ pc' = "done"
    /\ UNCHANGED <<op, input, fp, instances, crops_table>>

InitGrade == pc = "call" /\ op = "_get_grade"
             /\ input \in [score : GradeInputs] /\ result = NoResult /\ NoDatabase /\ fp \in FloatErrors

GetGrade ==
    /\ pc = "call"
    /\ op = "_get_grade"
    /\ result' = [raised |-> "none", grade |-> _get_grade(input.score)]
    /\ pc' = "done"
    /\ UNCHANGED <<op, input, fp, instances, crops_table>>

InitIrrigation == pc = "call" /\ op = "assess_irrigation_need"
                  /\ input \in IrrigationInputs /\ result = NoResult /\ NoDatabase /\ fp \in FloatErrors

AssessIrrigationNeed ==
    /\ pc = "call"
    /\ op = "assess_irrigation_need"
    /\ result' = assess_irrigation_need(input.crop, input.soil_moisture,
                     input.temperature, input.humidity, input.wind_speed,
                     input.growth_stage, input.soil_type, input.days_since_rain)
    /\ pc' = "done"
    /\ UNCHANGED <<op, input, fp, instances, crops_table>>

SpecIrrigation == InitIrrigation /\ [][AssessIrrigationNeed]_vars

InitYield == pc = "call" /\ op = "predict_yield"
             /\ input \in YieldInputs /\ result = NoResult /\ NoDatabase
             /\ fp \in IF input.area_hectares \in {Num(0), Num(1)}
                          THEN FloatErrors ELSE FloatErrorPairs

PredictYield ==
    /\ pc = "call"
    /\ op = "predict_yield"
    /\ \E variability \in VariabilityValues :
           result' = predict_yield(input.crop, input.soil_quality, input.rainfall,
                         input.temperature, input.humidity, input.nitrogen,
                         input.phosphorus, input.potassium, input.area_hectares,
                         variability)
    /\ pc' = "done"
    /\ UNCHANGED <<op, input, fp, instances, crops_table>>

SpecYield == InitYield /\ [][PredictYield]_vars

\* predict_yield up to the jitter (yield_prediction.py:64-79).
InitYieldPerHectare == pc = "call" /\ op = "yield_per_hectare"
                       /\ input \in YieldPerHectareInputs
                       /\ result = NoResult /\ NoDatabase /\ fp \in FloatErrors

YieldPerHectare ==
    /\ pc = "call"
    /\ op = "yield_per_hectare"
    /\ \E variability \in VariabilityValues :
           result' = yield_per_hectare_locals(input.crop, input.soil_quality,
                         input.rainfall, input.temperature, input.humidity,
                         input.nitrogen, input.phosphorus, input.potassium,
                         variability)
    /\ pc' = "done"
    /\ UNCHANGED <<op, input, fp, instances, crops_table>>

SpecYieldPerHectare == InitYieldPerHectare /\ [][YieldPerHectare]_vars

InitPrices == pc = "call" /\ op = "predict_prices"
              /\ input \in PriceInputs /\ result = NoResult /\ NoDatabase
              /\ fp \in FloatErrors

PredictPrices ==
    /\ pc = "call"
    /\ op = "predict_prices"
    /\ \E market_factor \in MarketFactorValues :
           result' = predict_prices(input.crop, input.months_ahead, input.now,
                                    market_factor)
    /\ pc' = "done"
    /\ UNCHANGED <<op, input, fp, instances, crops_table>>

SpecPrices == InitPrices /\ [][PredictPrices]_vars

InitWaterBudget == pc = "call" /\ op = "calculate_water_budget"
                   /\ input \in WaterBudgetInputs /\ result = NoResult /\ NoDatabase
                   /\ fp \in FloatErrors

CalculateWaterBudget ==
    /\ pc = "call"
    /\ op = "calculate_water_budget"
    /\ result' = calculate_water_budget(input.crop, input.area_hectares,
                     input.irrigation_method, input.season_days)
    /\ pc' = "done"
    /\ UNCHANGED <<op, input, fp, instances, crops_table>>

InitProfit == pc = "call" /\ op = "calculate_profitability"
              /\ input \in ProfitInputs /\ result = NoResult /\ NoDatabase
              /\ fp \in FloatErrors

CalculateProfitability ==
    /\ pc = "call"
    /\ op = "calculate_profitability"
    /\ result' = calculate_profitability(input.crop, input.area_hectares,
                                         input.selling_month)
    /\ pc' = "done"
    /\ UNCHANGED <<op, input, fp, instances, crops_table>>

SpecProfit == InitProfit /\ [][CalculateProfitability]_vars

InitChat == pc = "call" /\ op = "get_response"
            /\ input \in ChatInputs /\ result = NoResult /\ NoDatabase /\ fp = "down"

\* The fallback response is the pick of random.choice.
GetResponse ==
    /\ pc = "call"
    /\ op = "get_response"
    /\ LET base_responses ==
               Get(fallback_responses, _identify_topic(input.user_input),
                   fallback_responses.general)
       IN  \E choice \in DOMAIN base_responses :
               result' = get_response(input.user_input, input.model,
                                      input.context, input.service, choice)
    /\ pc' = "done"
    /\ UNCHANGED <<op, input, fp, instances, crops_table>>

SpecChat == InitChat /\ [][GetResponse]_vars

InitRecommendation == pc = "call" /\ op = "_generate_irrigation_recommendation"
                      /\ input \in [urgency : Urgencies,
                                    water_deficit : DeficitValues,
                                    crop : IrrigationCrops]
                      /\ result = NoResult /\ NoDatabase /\ fp \in FloatErrors

GenerateIrrigationRecommendation ==
    /\ pc = "call"
    /\ op = "_generate_irrigation_recommendation"
    /\ result' = _generate_irrigation_recommendation(
                     [urgency |-> input.urgency], input.water_deficit, Num(5),
                     input.crop)
    /\ pc' = "done"
    /\ UNCHANGED <<op, input, fp, instances, crops_table>>

SpecRecommendation ==
    InitRecommendation /\ [][GenerateIrrigationRecommendation]_vars

InitRisks == pc = "call" /\ op = "_assess_risks"
             /\ input \in RiskInputs /\ result = NoResult /\ NoDatabase /\ fp = "down"

AssessRisks ==
    /\ pc = "call"
    /\ op = "_assess_risks"
    /\ result' = [raised |-> "none"]
                     @@ _assess_risks(input.crop, input.rainfall,
                                      input.temperature, input.soil_quality)
    /\ pc' = "done"
    /\ UNCHANGED <<op, input, fp, instances, crops_table>>

SpecRisks == InitRisks /\ [][AssessRisks]_vars

InitLivePrices == pc = "call" /\ op = "get_live_prices_from_api"
                  /\ input \in LivePriceInputs /\ result = NoResult /\ NoDatabase
                  /\ fp \in FloatErrors

GetLivePricesFromApi ==
    /\ pc = "call"
    /\ op = "get_live_prices_from_api"
    /\ result' = get_live_prices_from_api(input.enam, input.agmarknet,
                     input.month, input.random.market_trend,
                     input.random.uniform)
    /\ pc' = "done"
    /\ UNCHANGED <<op, input, fp, instances, crops_table>>

SpecLivePrices == InitLivePrices /\ [][GetLivePricesFromApi]_vars

InitScenarios == pc = "call" /\ op = "compare_scenarios"
                 /\ input \in ScenarioInputs /\ result = NoResult /\ NoDatabase
                 /\ fp \in FloatErrors

CompareScenarios ==
    /\ pc = "call"
    /\ op = "compare_scenarios"
    /\ \E variabilities \in [DOMAIN input.scenarios -> ScenarioVariabilities] :
           result' = compare_scenarios(input.crop, input.scenarios,
                                       variabilities)
    /\ pc' = "done"
    /\ UNCHANGED <<op, input, fp, instances, crops_table>>

SpecScenarios == InitScenarios /\ [][CompareScenarios]_vars

InitSchedule == pc = "call" /\ op = "_calculate_irrigation_schedule"
                /\ input \in ScheduleInputs /\ result = NoResult /\ NoDatabase
                /\ fp = "down"

CalculateIrrigationSchedule ==
    /\ pc = "call"
    /\ op = "_calculate_irrigation_schedule"
    /\ result' = _calculate_irrigation_schedule(input.crop,
                     input.water_deficit, input.soil_type, input.growth_stage)
    /\ pc' = "done"
    /\ UNCHANGED <<op, input, fp, instances, crops_table>>

SpecSchedule == InitSchedule /\ [][CalculateIrrigationSchedule]_vars

\* agriculture.db does not exist and no AgriDB has been constructed.
InitDatabase == pc = "idle" /\ op = "db_manager" /\ input = [args |-> <<>>]
                /\ result = [raised |-> "none"] /\ fp = "down"
                /\ NoDatabase

DatabaseOps == {"db_manager", "AgriDB", "get_crop_data", "get_crops_by_season"}

\* AgriDB(): __init__ runs _create_tables.
ConstructAgriDB ==
    /\ op \in DatabaseOps
    /\ instances < MaxInstances
    /\ crops_table' = _create_tables(crops_table)
    /\ instances' = instances + 1
    /\ pc' = "done"
    /\ op' = "AgriDB"
    /\ input' = [args |-> <<>>]
    /\ result' = [raised |-> "none"]
    /\ UNCHANGED fp

\* A method of an instance needs an instance.
GetCropData ==
    /\ op \in DatabaseOps
    /\ instances >= 1
    /\ \E crop_name \in CropNameArgs :
           /\ input' = [args |-> <<crop_name>>]
           /\ result' = get_crop_data(crops_table, crop_name)
    /\ pc' = "done"
    /\ op' = "get_crop_data"
    /\ UNCHANGED <<fp, instances, crops_table>>

GetCropsBySeason ==
    /\ op \in DatabaseOps
    /\ instances >= 1
    /\ \E season \in SeasonArgs :
           /\ input' = [args |-> <<season>>]
           /\ result' = get_crops_by_season(crops_table, season)
    /\ pc' = "done"
    /\ op' = "get_crops_by_season"
    /\ UNCHANGED <<fp, instances, crops_table>>

NextDatabase == ConstructAgriDB \/ GetCropData \/ GetCropsBySeason

SpecDatabase == InitDatabase /\ [][NextDatabase]_vars

InitRotation == pc = "call" /\ op = "suggest_crop_rotation"
                /\ input \in RotationInputs /\ result = NoResult /\ NoDatabase
                /\ fp = "down"

\* The third crop of the plan is the pick of random.choice.
SuggestCropRotation ==
    /\ pc = "call"
    /\ op = "suggest_crop_rotation"
    /\ LET next_crop ==
               next_crop_of(top_recommendations(input.current_crop,
                                input.soil_quality, input.season))
           options == third_options(input.current_crop, next_crop)
       IN  \E third_crop \in IF options = <<>> THEN {"wheat"}
                              ELSE {options[i] : i \in DOMAIN options} :
               result' = suggest_crop_rotation(input.current_crop,
                             input.soil_quality, input.season,
                             input.area_hectares, third_crop)
    /\ pc' = "done"
    /\ UNCHANGED <<op, input, fp, instances, crops_table>>

SpecRotation == InitRotation /\ [][SuggestCropRotation]_vars

\* The five operations outside the Yield Estimator that look a crop up.
InitCropLookups ==
    \/ InitPrices
    \/ InitProfit
    \/ InitIrrigation
    \/ InitWaterBudget
    \/ InitRotation

NextCropLookups ==
    \/ PredictPrices
    \/ CalculateProfitability
    \/ AssessIrrigationNeed
    \/ CalculateWaterBudget
    \/ SuggestCropRotation

SpecCropLookups == InitCropLookups /\ [][NextCropLookups]_vars

\* Two calls of _calculate_soil_factor, so that their results can be compared.
InitSoilFactor == pc = "call" /\ op = "_calculate_soil_factor"
                  /\ input \in [soil_quality : SoilFactorInputs,
                                other_soil_quality : SoilFactorInputs]
                  /\ result = NoResult /\ NoDatabase /\ fp \in FloatErrors

CalculateSoilFactor ==
    /\ pc = "call"
    /\ op = "_calculate_soil_factor"
    /\ result' = [raised |-> "none",
                  factor |-> _calculate_soil_factor(input.soil_quality),
                  other_factor |->
                      _calculate_soil_factor(input.other_soil_quality)]
    /\ pc' = "done"
    /\ UNCHANGED <<op, input, fp, instances, crops_table>>

SpecSoilFactor == InitSoilFactor /\ [][CalculateSoilFactor]_vars

SpecSoil == InitSoil /\ [][CalculateSoilQualityScore]_vars

SpecGrade == InitGrade /\ [][GetGrade]_vars

Init ==
    \/ InitSoil
    \/ InitGrade
    \/ InitIrrigation
    \/ InitYield
    \/ InitSoilFactor
    \/ InitYieldPerHectare
    \/ InitPrices
    \/ InitRotation
    \/ InitProfit
    \/ InitWaterBudget
    \/ InitChat
    \/ InitDatabase
    \/ InitSchedule
    \/ InitScenarios
    \/ InitLivePrices
    \/ InitRisks
    \/ InitRecommendation

Next ==
    \/ CalculateSoilQualityScore
    \/ GetGrade
    \/ AssessIrrigationNeed
    \/ PredictYield
    \/ CalculateSoilFactor
    \/ YieldPerHectare
    \/ PredictPrices
    \/ SuggestCropRotation
    \/ CalculateProfitability
    \/ CalculateWaterBudget
    \/ GetResponse
    \/ ConstructAgriDB
    \/ GetCropData
    \/ GetCropsBySeason
    \/ CalculateIrrigationSchedule
    \/ CompareScenarios
    \/ GetLivePricesFromApi
    \/ AssessRisks
    \/ GenerateIrrigationRecommendation

Spec == Init /\ [][Next]_vars

Done(o) == pc = "done" /\ op = o

----------------------------------------------------------------------------
(* Soil Scorer: C1 - C4                                                     *)

ValidSoilSample(i) ==
    /\ RLe(Num(3), i.ph) /\ RLe(i.ph, Num(10))
    /\ RLe(Num(0), i.nitrogen) /\ RLe(Num(0), i.phosphorus)
    /\ RLe(Num(0), i.potassium) /\ RLe(Num(0), i.organic_matter)

\* C1: for every soil sample with non-negative nitrogen, phosphorus, potassium
\* and organic matter and pH in [3,10], the returned overall_score lies in
\* [0, 10].
C1_ScoreInRange ==
    Done("calculate_soil_quality_score") /\ ValidSoilSample(input)
        => RLe(Num(0), result.overall_score) /\ RLe(result.overall_score, Num(10))

\* A valid sample with every parameter at or above its optimum scores the
\* maximum 10; the nutrient caps are what keep it there.
C1_Witness ==
    /\ Done("calculate_soil_quality_score") /\ ValidSoilSample(input)
    /\ RGt(input.nitrogen, Num(50)) /\ RGt(input.potassium, Num(300))
    /\ result.overall_score = Num(10)

\* The weighted sum of the five RETURNED (two-decimal) sub-scores with the
\* weights the claim states.
ReturnedWeightedSum(r) ==
    RAdd(RAdd(RAdd(RAdd(RMul(r.individual_scores.ph, Rat(20, 100)),
                        RMul(r.individual_scores.nitrogen, Rat(25, 100))),
                   RMul(r.individual_scores.phosphorus, Rat(25, 100))),
              RMul(r.individual_scores.potassium, Rat(20, 100))),
         RMul(r.individual_scores.organic_matter, Rat(10, 100)))

WeightsSum ==
    RAdd(RAdd(RAdd(RAdd(weights.ph, weights.nitrogen), weights.phosphorus),
              weights.potassium),
         weights.organic_matter)

\* C2 as stated: the returned overall_score equals the weighted sum of the
\* five returned sub-scores (weights 0.20, 0.25, 0.25, 0.20, 0.10), and the
\* weights sum to exactly 1.
C2_Original ==
    Done("calculate_soil_quality_score")
        => /\ result.overall_score = ReturnedWeightedSum(result)
           /\ WeightsSum = Num(1)

\* C2 amended: overall_score and the sub-scores are each rounded to two
\* decimals on their own, so the returned overall_score is within 0.01 of the
\* weighted sum of the returned sub-scores; the weights sum to exactly 1.
C2_Amended ==
    Done("calculate_soil_quality_score")
        => /\ RLe(RAbs(RSub(result.overall_score, ReturnedWeightedSum(result))),
                  Rat(1, 100))
           /\ WeightsSum = Num(1)

\* An assessment where the two roundings show: the returned score is not the
\* weighted sum of the returned sub-scores.
C2_Witness ==
    /\ Done("calculate_soil_quality_score")
    /\ result.overall_score # ReturnedWeightedSum(result)

GradeOfTable(score) ==
    CASE RGe(score, Rat(85, 10)) -> "Excellent"
      [] RGe(score, Num(7)) /\ RLt(score, Rat(85, 10)) -> "Good"
      [] RGe(score, Rat(55, 10)) /\ RLt(score, Num(7)) -> "Fair"
      [] RGe(score, Num(4)) /\ RLt(score, Rat(55, 10)) -> "Poor"
      [] RLt(score, Num(4)) -> "Very Poor"

\* C3: the grade is the inclusive-lower-bound classification of the score:
\* >= 8.5 Excellent, [7.0, 8.5) Good, [5.5, 7.0) Fair, [4.0, 5.5) Poor,
\* < 4.0 Very Poor; 8.5 is Excellent and 8.4999 is Good.
C3_GradeThresholds ==
    Done("_get_grade")
        => /\ result.grade = GradeOfTable(input.score)
           /\ (input.score = Rat(85, 10) => result.grade = "Excellent")
           /\ (input.score = Rat(84999, 10000) => result.grade = "Good")

C3_Witness ==
    Done("_get_grade") /\ input.score = Rat(84999, 10000) /\ result.grade = "Good"

ExampleSample ==
    [ph |-> Rat(68, 10), nitrogen |-> Num(45), phosphorus |-> Num(35),
     potassium |-> Num(280), organic_matter |-> Rat(42, 10)]

\* C4: the sample ph=6.8, N=45, P=35, K=280, OM=4.2 scores 8.97, grade
\* Excellent, with sub-scores 9.14, 9.0, 8.75, 9.33, 8.4.
C4_Example ==
    Done("calculate_soil_quality_score") /\ input = ExampleSample
        => /\ result.overall_score = Rat(897, 100)
           /\ result.grade = "Excellent"
           /\ result.individual_scores =
                  [ph |-> Rat(914, 100), nitrogen |-> Num(9),
                   phosphorus |-> Rat(875, 100), potassium |-> Rat(933, 100),
                   organic_matter |-> Rat(84, 10)]

C4_Witness == Done("calculate_soil_quality_score") /\ input = ExampleSample

----------------------------------------------------------------------------
(* Irrigation Assessor: C5 - C7                                             *)

Assessed == Done("assess_irrigation_need") /\ result.raised = "none"

\* The five bands of soil moisture, each threshold belonging to the band
\* below it, with the urgency each status carries.
StatusTable(m) ==
    CASE RLe(m, Num(30)) -> <<"Critical", "High">>
      [] RGt(m, Num(30)) /\ RLe(m, Num(50)) -> <<"Stress", "Medium">>
      [] RGt(m, Num(50)) /\ RLe(m, Num(70)) -> <<"Adequate", "Low">>
      [] RGt(m, Num(70)) /\ RLe(m, Num(90)) -> <<"Optimal", "None">>
      [] RGt(m, Num(90)) -> <<"Excess", "Drainage">>

\* C5: the moisture status and its urgency are fixed by soil_moisture alone,
\* whatever the crop, temperature, humidity, wind, growth stage, soil type
\* and days since rain: the status changes only at 30, 50, 70 and 90, and
\* the statuses carry the urgencies Critical->High, Stress->Medium,
\* Adequate->Low, Optimal->None, Excess->Drainage.
C5_StatusByMoistureAlone ==
    Assessed
        => LET st == result.assessment.moisture_status
           IN  <<st.status, st.urgency>> = StatusTable(input.soil_moisture)

\* An assessment at a threshold for a crop, growth stage and soil type that
\* are in no reference table.
C5_Witness ==
    /\ Assessed
    /\ input.soil_moisture = Num(50)
    /\ input.crop = "quinoa" /\ input.soil_type = "sandy"
    /\ input.growth_stage = "seedling"
    /\ result.assessment.moisture_status.status = "Stress"

\* C6 as stated: soil_moisture = 29 gives urgency High and soil_moisture = 30
\* gives urgency Medium.
C6_Original ==
    Assessed
        => /\ (input.soil_moisture = Num(29)
                  => result.assessment.moisture_status.urgency = "High")
           /\ (input.soil_moisture = Num(30)
                  => result.assessment.moisture_status.urgency = "Medium")

\* C6 amended: the threshold is inclusive (soil_moisture <= 30 is Critical),
\* so 29 and 30 both give urgency High; urgency Medium starts above 30
\* (30.1 gives Medium).
C6_Amended ==
    Assessed
        => /\ (input.soil_moisture = Num(29)
                  => result.assessment.moisture_status.urgency = "High")
           /\ (input.soil_moisture = Num(30)
                  => result.assessment.moisture_status.urgency = "High")
           /\ (input.soil_moisture = Rat(301, 10)
                  => result.assessment.moisture_status.urgency = "Medium")

C6_Witness ==
    /\ Assessed
    /\ input.soil_moisture = Num(30)
    /\ result.assessment.moisture_status.urgency = "High"

\* C7: the water deficit returned is >= 0 for every input, including
\* soil_moisture above the 70% target and negative days_since_rain.
C7_DeficitNonNegative ==
    Assessed
        => /\ RGe(result.assessment.water_deficit, Num(0))
           /\ RGe(result.recommendation.water_amount_mm, Num(0))

\* Moisture above the target and rain "in the future": the sum is negative
\* and the clamp returns 0.
C7_Witness ==
    /\ Assessed
    /\ RGt(input.soil_moisture, Num(70))
    /\ RLt(input.days_since_rain, Num(0))
    /\ result.assessment.water_deficit = Num(0)

----------------------------------------------------------------------------
(* Yield Estimator: C8 - C10                                                *)

\* C8: with a crop that is not in the base-yield table, predict_yield returns
\* an error-shaped result (a record carrying an error message) and never
\* raises, whatever the other arguments are.
C8_UnsupportedCropIsErrorResult ==
    Done("predict_yield") /\ input.crop \notin DOMAIN base_yields
        => /\ result.raised = "none"
           /\ "error" \in DOMAIN result
           /\ "predicted_yield_per_hectare" \notin DOMAIN result

C8_Witness ==
    /\ Done("predict_yield")
    /\ input.crop = "quinoa"
    /\ "error" \in DOMAIN result

Predicted ==
    /\ Done("predict_yield")
    /\ result.raised = "none"
    /\ "error" \notin DOMAIN result

\* C9 as stated: in every successful result, total_production equals
\* predicted_yield_per_hectare times area_hectares exactly.
C9_Original ==
    Predicted
        => result.total_production =
               RMul(result.predicted_yield_per_hectare, result.area_hectares)

\* C9 amended: total_production and predicted_yield_per_hectare are each
\* rounded to two decimals from the unrounded values, so total_production is
\* within 0.005 * area_hectares + 0.005 of predicted_yield_per_hectare times
\* area_hectares, and equal to it when area_hectares is 0 or 1.
C9_Amended ==
    Predicted
        => LET product == RMul(result.predicted_yield_per_hectare,
                               result.area_hectares)
               slack == RAdd(RMul(Rat(5, 1000), RAbs(result.area_hectares)),
                             Rat(5, 1000))
           IN  /\ RLe(RAbs(RSub(result.total_production, product)), slack)
               /\ (result.area_hectares \in {Num(0), Num(1)}
                      => result.total_production = product)

\* A prediction where the two roundings show.
C9_Witness ==
    /\ Predicted
    /\ result.total_production #
           RMul(result.predicted_yield_per_hectare, result.area_hectares)

\* C10: the soil factor is continuous at the breakpoints 4.0 (0.6), 6.0 (0.8)
\* and 8.0 (1.0), where the formulas of both sides agree, and non-decreasing
\* in soil_quality, from 0.4 at 0 to 1.0 at 8.0 and above.  Between two soil
\* qualities a <= b the factor rises by at most 0.1 * (b - a), so it has no
\* jump anywhere.
C10_SoilFactorContinuousMonotone ==
    Done("_calculate_soil_factor")
        => LET a == input.soil_quality
               b == input.other_soil_quality
           IN  /\ (RLe(a, b)
                      => /\ RLe(result.factor, result.other_factor)
                         /\ RLe(RSub(result.other_factor, result.factor),
                                RMul(Rat(1, 10), RSub(b, a))))
               /\ (a = Num(0) => result.factor = Rat(4, 10))
               /\ (a = Num(4)
                      => /\ result.factor = Rat(6, 10)
                         /\ soil_factor_poor(a) = Rat(6, 10))
               /\ (a = Num(6)
                      => /\ result.factor = Rat(8, 10)
                         /\ soil_factor_fair(a) = Rat(8, 10))
               /\ (a = Num(8)
                      => /\ result.factor = Num(1)
                         /\ soil_factor_good(a) = Num(1))
               /\ (RGe(a, Num(8)) => result.factor = Num(1))

\* The two sides of the breakpoint 4.0, a thousandth apart.
C10_Witness ==
    /\ Done("_calculate_soil_factor")
    /\ input.soil_quality = Rat(3999, 1000)
    /\ input.other_soil_quality = Num(4)
    /\ result.factor = Rat(59995, 100000)
    /\ result.other_factor = Rat(6, 10)

----------------------------------------------------------------------------
(* Yield Estimator: C11                                                     *)

\* A supported crop with non-negative soil quality, rainfall, humidity and
\* fertilizer.
NonNegativeYieldInputs ==
    /\ input.crop \in DOMAIN base_yields
    /\ RGe(input.soil_quality, Num(0))
    /\ RGe(input.rainfall, Num(0))
    /\ RGe(input.humidity, Num(0))
    /\ RGe(input.nitrogen, Num(0))
    /\ RGe(input.phosphorus, Num(0))
    /\ RGe(input.potassium, Num(0))

FactorProduct ==
    RMul(RMul(RMul(result.base_yield, result.soil_factor),
              result.weather_factor),
         result.fertilizer_factor)

\* C11: for a supported crop and non-negative soil quality, rainfall,
\* humidity and fertilizer, the yield per hectare lies between 0.9 and 1.1
\* times base_yield x soil_factor x weather_factor x fertilizer_factor and is
\* not negative, for every jitter.
C11_YieldWithinJitterOfFactors ==
    Done("yield_per_hectare") /\ NonNegativeYieldInputs
        => /\ RLe(RMul(Rat(9, 10), FactorProduct), result.yield_per_hectare)
           /\ RLe(result.yield_per_hectare, RMul(Rat(11, 10), FactorProduct))
           /\ RGe(result.yield_per_hectare, Num(0))

\* A positive yield at the upper end of the jitter.
C11_Witness ==
    /\ Done("yield_per_hectare")
    /\ NonNegativeYieldInputs
    /\ RGt(FactorProduct, Num(0))
    /\ result.variability = Rat(11, 10)
    /\ result.yield_per_hectare = RMul(Rat(11, 10), FactorProduct)

----------------------------------------------------------------------------
(* Price Forecaster: C12, C13                                               *)

Forecast ==
    /\ Done("predict_prices")
    /\ "future_predictions" \in DOMAIN result

\* C12: for a supported crop, months_ahead >= 1 and every trend, each entry
\* of future_predictions has min_price <= predicted_price <= max_price.
C12_PriceWithinRange ==
    Forecast /\ input.months_ahead >= 1
        => \A m \in DOMAIN result.future_predictions :
               LET p == result.future_predictions[m]
               IN  /\ RLe(p.min_price, p.predicted_price)
                   /\ RLe(p.predicted_price, p.max_price)

\* A forecast of several months whose last range is a proper one, in a month
\* whose seasonal multiplier is below 1.
C12_Witness ==
    /\ Forecast
    /\ input.crop = "wheat"
    /\ Len(result.future_predictions) >= 3
    /\ LET p == result.future_predictions[Len(result.future_predictions)]
       IN  /\ p.date[2] \in {4, 5, 6, 7}
           /\ RLt(p.min_price, p.predicted_price)
           /\ RLt(p.predicted_price, p.max_price)

\* C13: in future_predictions confidence never increases from one month to
\* the next and is never below 0.5; it is max(0.5, 1.0 - 0.1 x month).
C13_ConfidenceNonIncreasingFloored ==
    Forecast
        => LET f == result.future_predictions
           IN  /\ \A m \in DOMAIN f :
                      /\ RGe(f[m].confidence, Rat(5, 10))
                      /\ f[m].month = m
                      /\ f[m].confidence =
                             (IF m >= 5 THEN Rat(5, 10) ELSE Rat(10 - m, 10))
               /\ \A m \in DOMAIN f :
                      m + 1 \in DOMAIN f
                          => RLe(f[m + 1].confidence, f[m].confidence)

\* A forecast long enough for the floor to be reached and held.
C13_Witness ==
    /\ Forecast
    /\ Len(result.future_predictions) >= 6
    /\ result.future_predictions[1].confidence = Rat(9, 10)
    /\ result.future_predictions[5].confidence = Rat(5, 10)
    /\ result.future_predictions[6].confidence = Rat(5, 10)

----------------------------------------------------------------------------
(* Crop rotation recommendations.                                           *)

Recommended == Done("suggest_crop_rotation")

\* C14: no crop whose season differs from the requested season and is not
\* 'all' appears among the recommendations of suggest_crop_rotation.
C14_SeasonRespected ==
    Recommended =>
        \A i \in DOMAIN result.recommendations :
            crop_database[result.recommendations[i].crop].season
                \in {input.season, "all"}

\* A full list that mixes crops of the requested season with all-year crops.
C14_Witness ==
    /\ Recommended
    /\ input.season = "monsoon"
    /\ Len(result.recommendations) = 5
    /\ \E i, j \in DOMAIN result.recommendations :
           /\ crop_database[result.recommendations[i].crop].season = "all"
           /\ crop_database[result.recommendations[j].crop].season = "monsoon"

\* The crops the claim calls eligible: the season matches exactly or the
\* crop grows all year.
EligibleCrops ==
    {crop \in DOMAIN crop_database :
        /\ crop_database[crop].season \in {input.season, "all"}
        /\ RLe(Num(crop_database[crop].soil_min),
               RAdd(input.soil_quality, Num(2)))}

\* The suitability score the claim states.
StatedScore(crop) ==
    LET current_category == category_of(input.current_crop, "unknown")
        category == crop_database[crop].category
        benefit ==
            IF category \in Get(rotation_benefits, current_category,
                                {"cereals", "legumes"}) THEN 3
            ELSE IF category = current_category THEN 1
            ELSE 2
    IN  RAdd(Num(2 * benefit),
             RMin(Num(10),
                  RAdd(RSub(input.soil_quality,
                            Num(crop_database[crop].soil_min)), Num(5))))

\* C15: the recommendations are the (at most five) highest-scoring eligible
\* crops in non-increasing order of suitability_score, each with the stated
\* score, and no eligible crop left out scores strictly higher than a
\* returned one.
C15_TopFiveByScore ==
    Recommended =>
        LET recs == result.recommendations
            returned == {recs[i].crop : i \in DOMAIN recs}
        IN  /\ returned \subseteq EligibleCrops
            /\ Cardinality(returned) = Len(recs)
            /\ Len(recs) = IF Cardinality(EligibleCrops) < 5
                              THEN Cardinality(EligibleCrops) ELSE 5
            /\ \A i \in DOMAIN recs :
                   recs[i].suitability_score = StatedScore(recs[i].crop)
            /\ \A i, j \in DOMAIN recs :
                   i < j => RGe(recs[i].suitability_score,
                                recs[j].suitability_score)
            /\ \A crop \in EligibleCrops \ returned :
                   \A i \in DOMAIN recs :
                       RLe(StatedScore(crop), recs[i].suitability_score)

----------------------------------------------------------------------------
(* Profitability.                                                           *)

\* A call the claim covers, returned: a crop of the price tables on a
\* positive area.
Profited ==
    /\ Done("calculate_profitability")
    /\ input.crop \in DOMAIN current_prices
    /\ RGt(input.area_hectares, Num(0))

\* typical_yield x area x selling_price
StatedRevenue ==
    RMul(RMul(Num(typical_yields[input.crop]), input.area_hectares),
         result.selling_price_per_quintal)

\* cultivation_cost x area
StatedCost == RMul(Num(cultivation_costs[input.crop]), input.area_hectares)

\* The label the claim assigns to a roi.
StatedLabel(roi) ==
    CASE RGt(roi, Num(50)) -> "High"
      [] RGt(roi, Num(20)) /\ RLe(roi, Num(50)) -> "Medium"
      [] RGt(roi, Num(0)) /\ RLe(roi, Num(20)) -> "Low"
      [] RLe(roi, Num(0)) -> "Loss"

\* The selling price the claim's products are taken at: the current price,
\* times the month's multiplier for a selling_month of 1..12.
SellingPriceAsStated ==
    result.selling_price_per_quintal =
        IF input.selling_month \in {<<m>> : m \in 1..12}
        THEN RMul(Num(current_prices[input.crop]),
                  seasonal_multiplier_of(input.crop, input.selling_month[1]))
        ELSE Num(current_prices[input.crop])

\* C16 as stated: calculate_profitability returns net_profit =
\* total_revenue - total_cost with total_revenue = typical_yield x area x
\* selling_price and total_cost = cultivation_cost x area, and the label
\* follows the returned roi_percent.
C16_Original ==
    Profited =>
        /\ result.raised = "none"
        /\ SellingPriceAsStated
        /\ result.total_revenue = StatedRevenue
        /\ result.total_cost = StatedCost
        /\ result.net_profit = RSub(result.total_revenue, result.total_cost)
        /\ result.profitability = StatedLabel(result.roi_percent)

\* x is y to the nearest hundredth.
NearestCent(x, y) ==
    /\ RMul(x, Num(100))[2] = 1
    /\ RLe(RAbs(RSub(x, y)), Rat(5, 1000))

\* C16 amended: total_revenue, total_cost and net_profit are each rounded to
\* two decimals, from typical_yield x area x selling_price, from
\* cultivation_cost x area and from the unrounded difference of the two; the
\* returned net_profit is within 0.01 of the returned total_revenue minus the
\* returned total_cost, and equal to it when the unrounded revenue and cost
\* have at most two decimals; the label follows the returned roi_percent.
C16_Amended ==
    Profited =>
        /\ result.raised = "none"
        /\ SellingPriceAsStated
        /\ NearestCent(result.total_revenue, StatedRevenue)
        /\ NearestCent(result.total_cost, StatedCost)
        /\ NearestCent(result.net_profit, RSub(StatedRevenue, StatedCost))
        /\ RLe(RAbs(RSub(result.net_profit,
                         RSub(result.total_revenue, result.total_cost))),
               Rat(1, 100))
        /\ (RMul(StatedRevenue, Num(100))[2] = 1
                /\ RMul(StatedCost, Num(100))[2] = 1
               => result.net_profit =
                      RSub(result.total_revenue, result.total_cost))
        /\ result.profitability = StatedLabel(result.roi_percent)

\* A third of a hectare of barley: the three roundings show.
C16_Witness ==
    /\ Profited
    /\ input.selling_month \in {<<m>> : m \in 1..12}
    /\ result.total_revenue # StatedRevenue
    /\ result.total_cost # StatedCost
    /\ result.net_profit # RSub(result.total_revenue, result.total_cost)

----------------------------------------------------------------------------
(* Unknown crops outside the Yield Estimator.                               *)

\* A returned call of one of the five operations with a crop that is absent
\* from the operation's reference tables.
UnknownCropLookup ==
    /\ pc = "done"
    /\ \/ /\ op \in {"predict_prices", "calculate_profitability"}
          /\ input.crop \notin DOMAIN current_prices
       \/ /\ op \in {"assess_irrigation_need", "calculate_water_budget"}
          /\ input.crop \notin DOMAIN crop_water_requirements
       \/ /\ op = "suggest_crop_rotation"
          /\ input.current_crop \notin DOMAIN crop_database

\* C17: outside the Yield Estimator an unknown crop never produces an error
\* result or an exception: predict_prices, calculate_profitability,
\* assess_irrigation_need, calculate_water_budget and suggest_crop_rotation
\* each complete with a normal result computed from a default constant.
C17_UnknownCropNeverErrors ==
    UnknownCropLookup =>
        /\ result.raised = "none"
        /\ "error" \notin DOMAIN result
        /\ op = "calculate_water_budget"
               => result.daily_requirement_mm = Num(5)
        /\ op = "suggest_crop_rotation"
               => result.current_category = "unknown"

----------------------------------------------------------------------------
(* The chatbot and its fallback.                                            *)

Responded == Done("get_response")

\* The service answered with status 200.
Status200 ==
    input.service.kind = "response" /\ input.service.status_code = 200

\* A fallback result as the claim describes it.
FallbackResult ==
    /\ result.source = "fallback"
    /\ result.model_used = "rule_based"
    /\ result.response # <<>>
    /\ \A i \in DOMAIN result.response : result.response[i] # ""

\* C18 as stated: get_response returns success = True for every outcome of
\* the completion-service call and never raises; the source is 'ollama'
\* exactly when the service answered with status 200, and otherwise
\* 'fallback' with model_used 'rule_based' and a non-empty response.
C18_Original ==
    Responded =>
        /\ result.raised = "none"
        /\ result.success = TRUE
        /\ (result.source = "ollama" <=> Status200)
        /\ (result.source # "ollama" => FallbackResult)

\* C18 amended: get_response returns success = True for every outcome of the
\* completion-service call and never raises; the source is 'ollama' exactly
\* when the service answered with status 200 and a body that decodes to a
\* JSON object whose 'response' is a string or absent, and otherwise
\* 'fallback' with model_used 'rule_based' and a non-empty response.
C18_Amended ==
    Responded =>
        /\ result.raised = "none"
        /\ result.success = TRUE
        /\ (result.source = "ollama"
               <=> Status200 /\ UsableBody(input.service.body))
        /\ (result.source # "ollama" => FallbackResult)

\* A status 200 whose body is not usable, answered by the fallback.
C18_Witness ==
    /\ Responded
    /\ Status200
    /\ input.service.body.kind = "not_json"
    /\ result.success = TRUE
    /\ result.source = "fallback"

----------------------------------------------------------------------------
(* Out-of-range soil inputs.                                                *)

\* C19: out-of-range soil inputs are clamped: for every numeric input,
\* negative nutrient concentrations or organic matter and pH far outside
\* 3-10 included, each of the five sub-scores of
\* calculate_soil_quality_score lies in [0, 10].
C19_SubScoresClamped ==
    Done("calculate_soil_quality_score") =>
        \A p \in SoilParams :
            /\ RGe(result.individual_scores[p], Num(0))
            /\ RLe(result.individual_scores[p], Num(10))

----------------------------------------------------------------------------
(* Unknown keys in the irrigation assessment.                               *)

\* The evapotranspiration rate the claim's defaults give: 5.0 mm/day for an
\* unknown crop and a multiplier of 1.0 for an unknown growth stage.
StatedEtRate ==
    LET base == IF input.crop \in DOMAIN crop_water_requirements
                    THEN crop_water_requirements[input.crop] ELSE Num(5)
        stage == IF input.growth_stage \in DOMAIN growth_stage_multipliers
                     THEN growth_stage_multipliers[input.growth_stage]
                 ELSE Num(1)
        Clamp(lo, x, hi) == RMax(lo, RMin(hi, x))
        temp == Clamp(Rat(5, 10),
                      RAdd(Num(1), RMul(RSub(input.temperature, Num(25)),
                                        Rat(2, 100))),
                      Rat(15, 10))
        humid == Clamp(Rat(7, 10),
                       RSub(Num(1), RMul(RSub(input.humidity, Num(50)),
                                         Rat(5, 1000))),
                       Rat(13, 10))
        wind == Clamp(Rat(8, 10),
                      RAdd(Num(1), RMul(RSub(input.wind_speed, Num(5)),
                                        Rat(1, 100))),
                      Rat(14, 10))
    IN  RMax(Num(1), RMul(RMul(RMul(RMul(base, stage), temp), humid), wind))

\* The water deficit the claim's default gives: a soil capacity of 1.5 for an
\* unknown soil type.
StatedDeficit ==
    LET capacity == IF input.soil_type \in DOMAIN soil_water_capacity
                        THEN soil_water_capacity[input.soil_type]
                    ELSE Rat(15, 10)
        shortfall == RMax(Num(0), RSub(Num(70), input.soil_moisture))
    IN  RMax(Num(0),
             RAdd(RMul(RMul(RDiv(shortfall, Num(100)), capacity), Num(300)),
                  RMul(StatedEtRate, input.days_since_rain)))

\* C20: assess_irrigation_need has no failure mode on unknown keys: for any
\* crop, growth stage and soil type, in the reference tables or not, it
\* completes using the defaults 5.0 mm/day, stage multiplier 1.0, soil
\* capacity 1.5 and method 'sprinkler', and the efficiency lookup never
\* misses: every method of the crop->method table, and the default, is a key
\* of the efficiency table.
C20_NoFailureOnUnknownKeys ==
    Done("assess_irrigation_need") =>
        /\ result.raised = "none"
        /\ result.assessment.et_rate = RoundTie(StatedEtRate, 2, FALSE)
               \/ result.assessment.et_rate = RoundTie(StatedEtRate, 2, TRUE)
        /\ result.assessment.water_deficit = RoundTie(StatedDeficit, 2, FALSE)
               \/ result.assessment.water_deficit
                      = RoundTie(StatedDeficit, 2, TRUE)
        /\ (input.crop \notin DOMAIN crop_methods
               => result.recommendation.method_recommendation.method
                      = "sprinkler")
        /\ result.recommendation.method_recommendation.method
               \in DOMAIN irrigation_efficiency
        /\ \A crop \in DOMAIN crop_methods :
               crop_methods[crop] \in DOMAIN irrigation_efficiency
        /\ "sprinkler" \in DOMAIN irrigation_efficiency

\* An assessment where the crop, the growth stage and the soil type are all
\* unknown and water is short.
C20_Witness ==
    /\ Done("assess_irrigation_need")
    /\ input.crop \notin DOMAIN crop_water_requirements
    /\ input.crop \notin DOMAIN crop_methods
    /\ input.growth_stage \notin DOMAIN growth_stage_multipliers
    /\ input.soil_type \notin DOMAIN soil_water_capacity
    /\ result.raised = "none"
    /\ RGt(result.assessment.water_deficit, Num(0))
    /\ result.recommendation.method_recommendation.method = "sprinkler"

----------------------------------------------------------------------------
(* The irrigation duration.                                                 *)

\* x is y reported to one decimal.
ToOneDecimal(x, y) == x = RoundTie(y, 1, FALSE) \/ x = RoundTie(y, 1, TRUE)

\* C21: the recommended duration is fixed by urgency: High gives priority
\* Immediate and max(2, deficit / 10) hours, Medium gives priority Soon and
\* max(1, deficit / 15) hours, Low, None and Drainage give 0; the duration,
\* reported to one decimal, is never negative and is positive exactly when
\* the urgency is High or Medium.
C21_DurationByUrgency ==
    Done("_generate_irrigation_recommendation") =>
        /\ result.raised = "none"
        /\ (input.urgency = "High" =>
               /\ result.priority = "Immediate"
               /\ ToOneDecimal(result.duration_hours,
                               RMax(Num(2), RDiv(input.water_deficit, Num(10)))))
        /\ (input.urgency = "Medium" =>
               /\ result.priority = "Soon"
               /\ ToOneDecimal(result.duration_hours,
                               RMax(Num(1), RDiv(input.water_deficit, Num(15)))))
        /\ (input.urgency \in {"Low", "None", "Drainage"} =>
               result.duration_hours = Num(0))
        /\ RGe(result.duration_hours, Num(0))
        /\ (RGt(result.duration_hours, Num(0))
               <=> input.urgency \in {"High", "Medium"})

\* A Medium urgency whose deficit is above the floor of one hour.
C21_Witness ==
    /\ Done("_generate_irrigation_recommendation")
    /\ input.urgency = "Medium"
    /\ RGt(input.water_deficit, Num(15))
    /\ RGt(result.duration_hours, Num(1))

----------------------------------------------------------------------------
(* The risks of a yield prediction.                                         *)

\* The threshold predicate of each risk, on the arguments of the call.
RiskHolds(risk) ==
    CASE risk = ColdStress ->
             RLt(input.temperature,
                 RSub(Requirement(input.crop, "temp_min"), Num(5)))
      [] risk = HeatStress ->
             RGt(input.temperature,
                 RAdd(Requirement(input.crop, "temp_max"), Num(5)))
      [] risk = Drought ->
             RLt(input.rainfall,
                 RMul(Requirement(input.crop, "rainfall_min"), Rat(7, 10)))
      [] risk = Waterlogging ->
             RGt(input.rainfall,
                 RMul(Requirement(input.crop, "rainfall_max"), Rat(13, 10)))
      [] risk = PoorSoil -> RLt(input.soil_quality, Num(5))

Risks == {ColdStress, HeatStress, Drought, Waterlogging, PoorSoil}

\* The mitigation that matches a risk.
MitigationOf(risk) ==
    CASE risk = ColdStress -> "Use row covers, plant after last frost date"
      [] risk = HeatStress -> "Provide shade, increase irrigation frequency"
      [] risk = Drought -> "Install drip irrigation, use mulching"
      [] risk = Waterlogging -> "Improve drainage, use raised beds"
      [] risk = PoorSoil -> "Add organic matter, balance nutrients"

\* C22: every risk predicate that holds is reported: risk_factors contain
\* exactly the risks whose threshold predicate is true, each once (only the
\* 'favorable conditions' message when none is), and mitigation_strategies
\* holds one matching mitigation per reported risk in the same order, none
\* for the 'favorable conditions' message.
C22_AllRisksReported ==
    Done("_assess_risks") =>
        LET risks == result.risk_factors
            reported == {risks[i] : i \in DOMAIN risks}
            strategies == result.mitigation_strategies
        IN  /\ Cardinality(reported) = Len(risks)
            /\ \A risk \in Risks : risk \in reported <=> RiskHolds(risk)
            /\ reported \subseteq Risks \cup {Favorable}
            /\ (Favorable \in reported <=> \A risk \in Risks : ~RiskHolds(risk))
            /\ IF risks = <<Favorable>> THEN strategies = <<>>
               ELSE /\ Len(strategies) = Len(risks)
                    /\ \A i \in DOMAIN risks :
                           strategies[i] = MitigationOf(risks[i])

\* Three predicates true at once: cold, dry and poor soil.
C22_Witness ==
    /\ Done("_assess_risks")
    /\ RiskHolds(ColdStress) /\ RiskHolds(Drought) /\ RiskHolds(PoorSoil)
    /\ result.risk_factors = <<ColdStress, Drought, PoorSoil>>
    /\ Len(result.mitigation_strategies) = 3

----------------------------------------------------------------------------
(* The market sentiment of a price forecast.                                *)

\* The realized trend of a forecast, in percent: from the current price to
\* the last predicted price.
RealizedTrend ==
    LET future == result.future_predictions
    IN  RMul(RDiv(RSub(future[Len(future)].predicted_price,
                       result.current_price),
                  result.current_price),
             Num(100))

\* C23: for a supported crop and months_ahead >= 1, 1 included, the market
\* sentiment is 'Bullish' exactly when the realized trend is above 10
\* percent, 'Bearish' exactly when it is below -10 percent, and 'Neutral'
\* otherwise.
C23_SentimentByRealizedTrend ==
    Forecast /\ input.months_ahead >= 1
        => result.market_analysis.market_sentiment =
               IF RGt(RealizedTrend, Num(10)) THEN "Bullish"
               ELSE IF RLt(RealizedTrend, Num(-10)) THEN "Bearish"
               ELSE "Neutral"

----------------------------------------------------------------------------
(* The rotation plan.                                                       *)

\* C24: the rotation plan has exactly three entries: the current crop, then
\* the top-ranked recommendation ('wheat' when no crop is eligible), then a
\* third crop that, whatever random.choice picks, differs from both earlier
\* crops and whose category is in the beneficial set of the second crop's
\* category.
C24_ThreeStepPlan ==
    Recommended =>
        LET plan == result.rotation_plan
            recommendations == result.recommendations
        IN  /\ Len(plan) = 3
            /\ plan[1].crop = input.current_crop
            /\ IF recommendations = <<>> THEN plan[2].crop = "wheat"
               ELSE /\ plan[2].crop = recommendations[1].crop
                    /\ \A i \in DOMAIN recommendations :
                           RGe(recommendations[1].suitability_score,
                               recommendations[i].suitability_score)
            /\ plan[3].crop \notin {plan[1].crop, plan[2].crop}
            /\ plan[3].crop \in DOMAIN crop_database
            /\ plan[2].crop \in DOMAIN crop_database
            /\ crop_database[plan[3].crop].category
                   \in rotation_benefits[crop_database[plan[2].crop].category]

\* A plan whose current crop is itself of a category that benefits the
\* second crop, so that only the exclusion keeps it out of the third place.
C24_Witness ==
    /\ Recommended
    /\ input.current_crop \in DOMAIN crop_database
    /\ LET plan == result.rotation_plan
       IN  /\ Len(result.recommendations) >= 2
           /\ crop_database[plan[1].crop].category
                  \in rotation_benefits[crop_database[plan[2].crop].category]
           /\ plan[3].crop # plan[1].crop

----------------------------------------------------------------------------
(* Live prices and the two market APIs.                                     *)

\* The API call ends in an exception: requests.get raises, or the body of a
\* 200 is not a JSON object.
Fails(response) ==
    \/ "raises" \in DOMAIN response
    \/ /\ "json" \in DOMAIN response
       /\ response.json.type # "dict"

\* The entries a response carries under the API's key.
ItemsOf(response, list_key) ==
    IF "json" \in DOMAIN response /\ response.json.type = "dict"
       /\ list_key \in DOMAIN response.json.value
        THEN response.json.value[list_key]
    ELSE <<>>

\* An entry with a name and a price that is a positive number or the text of
\* a whole number, and the price it quotes.
Readable(item) ==
    /\ "commodity" \in DOMAIN item
    /\ item.commodity # ""
    /\ \/ "int" \in DOMAIN item.modal_price /\ item.modal_price.int > 0
       \/ "float" \in DOMAIN item.modal_price
       \/ "str" \in DOMAIN item.modal_price /\ item.modal_price.str = "2350"

QuotedPrice(item) ==
    IF "int" \in DOMAIN item.modal_price THEN item.modal_price.int
    ELSE IF "float" \in DOMAIN item.modal_price
        THEN Truncate(item.modal_price.float)
    ELSE 2350

SimulatedPrices ==
    get_enhanced_simulated_prices(input.month, input.random.market_trend,
                                  input.random.uniform)

\* The base price of a crop times its volatility factor, as an int.
FilledPrice(crop) ==
    Truncate(RMul(Num(base_price_of(crop)),
                  get_market_volatility_factor(crop, input.random.uniform)))

\* C25: get_live_prices_from_api never raises and returns a price for every
\* crop of CROP_DATABASE under every combination of outcomes of the two API
\* calls.  The simulated prices are returned when no API yields an entry and
\* when a call ends in an exception; when the APIs answer with readable
\* entries, a crop they name has the quoted price (eNAM before Agmarknet)
\* and a crop they do not name is filled from its base price.
C25_AlwaysAPriceForEveryCrop ==
    Done("get_live_prices_from_api") =>
        LET enam_items_ == ItemsOf(input.enam, "data")
            agmarknet_items == ItemsOf(input.agmarknet, "records")
            live_prices == result.live_prices
            Names(items, crop) ==
                {i \in DOMAIN items : Lower(items[i].commodity) = crop}
            Max(S) == CHOOSE i \in S : \A j \in S : j <= i
            Min(S) == CHOOSE i \in S : \A j \in S : i <= j
        IN  /\ result.raised = "none"
            /\ \A crop \in Crops :
                   crop \in DOMAIN live_prices /\ live_prices[crop] \in Nat
            /\ Fails(input.enam) \/ Fails(input.agmarknet)
                   => live_prices = SimulatedPrices
            /\ enam_items_ = <<>> /\ agmarknet_items = <<>>
                   => live_prices = SimulatedPrices
            /\ /\ ~Fails(input.enam) /\ ~Fails(input.agmarknet)
               /\ Len(enam_items_) + Len(agmarknet_items) > 0
               /\ \A i \in DOMAIN enam_items_ : Readable(enam_items_[i])
               /\ \A i \in DOMAIN agmarknet_items : Readable(agmarknet_items[i])
               => \A crop \in Crops :
                      live_prices[crop] =
                          IF Names(enam_items_, crop) # {}
                              THEN QuotedPrice(
                                       enam_items_[Max(Names(enam_items_, crop))])
                          ELSE IF Names(agmarknet_items, crop) # {}
                              THEN QuotedPrice(
                                       agmarknet_items[
                                           Min(Names(agmarknet_items, crop))])
                          ELSE FilledPrice(crop)

\* Both APIs quote wheat: the price of eNAM is returned, and rice, which
\* neither names, is filled from its base price.
C25_Witness ==
    /\ Done("get_live_prices_from_api")
    /\ ItemsOf(input.enam, "data")
           = <<[commodity |-> "Wheat", modal_price |-> [int |-> 2500]]>>
    /\ ItemsOf(input.agmarknet, "records")
           = <<[commodity |-> "wheat", modal_price |-> [str |-> "2350"]]>>
    /\ result.live_prices["wheat"] = 2500
    /\ result.live_prices["rice"] = FilledPrice("rice")
    /\ result.live_prices # SimulatedPrices

----------------------------------------------------------------------------
(* The grade and the returned score.                                        *)

\* C26: in every assessment of calculate_soil_quality_score the returned
\* grade is the grade the threshold table assigns to the returned
\* (two-decimal) overall_score.
C26_GradeOfReturnedScore ==
    Done("calculate_soil_quality_score")
        => result.grade = GradeOfTable(result.overall_score)

----------------------------------------------------------------------------
(* The parts of one irrigation assessment.                                  *)

\* C27: whenever the urgency of an assessment is Low, None or Drainage (the
\* duration is 0), the recommendation's water_amount_mm is 0 and no day of
\* irrigation_schedule has an irrigation amount above 0.
C27_NoWaterWithoutUrgency ==
    Assessed
    /\ result.assessment.moisture_status.urgency \in {"Low", "None", "Drainage"}
        => /\ result.recommendation.duration_hours = Num(0)
           /\ result.recommendation.water_amount_mm = Num(0)
           /\ \A i \in DOMAIN result.irrigation_schedule :
                  ~RGt(result.irrigation_schedule[i].amount_mm, Num(0))

----------------------------------------------------------------------------
(* Comparing scenarios.                                                     *)

\* C28: compare_scenarios with a crop that is absent from the base-yield
\* table, or with an empty list of scenarios, returns an error-shaped result
\* and does not raise.
C28_CompareScenariosNeverRaises ==
    Done("compare_scenarios")
    /\ (input.crop \notin DOMAIN base_yields \/ input.scenarios = <<>>)
        => result.raised = "none" /\ "error" \in DOMAIN result

----------------------------------------------------------------------------
(* The irrigation schedule.                                                 *)

\* The interval between irrigations: the crop's base frequency (3 for a crop
\* without one), one day less, but at least 1, in flowering and grain
\* filling, two days more at maturity.
StatedInterval ==
    LET base == Get(base_frequency, input.crop, 3)
    IN  IF input.growth_stage \in {"flowering", "grain_filling"}
            THEN (IF base > 1 THEN base - 1 ELSE 1)
        ELSE IF input.growth_stage = "maturity" THEN base + 2
        ELSE base

\* C29: with a positive water deficit the schedule has exactly 14 entries,
\* for days 1..14 in increasing order; the interval is at least 1; day 1 is
\* an irrigation day and the irrigation days are exactly one interval apart;
\* every other day is 'Monitor' with amount 0.  With a deficit that is not
\* positive the schedule is the single 'Monitor soil moisture' entry.
C29_FourteenDaySchedule ==
    Done("_calculate_irrigation_schedule") =>
        /\ result.raised = "none"
        /\ IF RGt(input.water_deficit, Num(0))
               THEN LET days == result.days
                        Irrigates(i) == days[i].action = "Irrigate"
                    IN  /\ Len(days) = 14
                        /\ \A i \in 1..14 : days[i].day = i
                        /\ StatedInterval >= 1
                        /\ Irrigates(1)
                        /\ \A i \in 1..14 :
                               Irrigates(i) <=> (i - 1) % StatedInterval = 0
                        /\ \A i \in 1..14 :
                               IF Irrigates(i)
                                   THEN RGt(days[i].amount_mm, Num(0))
                               ELSE /\ days[i].action = "Monitor"
                                    /\ days[i].amount_mm = Num(0)
           ELSE result.days = <<[day |-> 1, action |-> "Monitor soil moisture",
                                 amount_mm |-> Num(0)]>>

\* Rice in flowering: the interval is held at 1 and every day irrigates.
C29_Witness ==
    /\ Done("_calculate_irrigation_schedule")
    /\ input.crop = "rice" /\ input.growth_stage = "flowering"
    /\ RGt(input.water_deficit, Num(0))
    /\ Len(result.days) = 14
    /\ \A i \in 1..14 : result.days[i].action = "Irrigate"

----------------------------------------------------------------------------
(* Seeding the crop reference table.                                        *)

\* C30: seeding is idempotent and the table is read-only afterwards: after
\* any sequence of AgriDB constructions, get_crop_data and
\* get_crops_by_season calls from an empty database, the crops table holds
\* exactly the 8 seed rows, one per crop name; seeding again neither
\* overwrites nor duplicates a row.
C30_SeedOnce ==
    LET rows == crops_table.rows
    IN  /\ instances >= 1 <=> crops_table.created
        /\ ~crops_table.created => rows = <<>>
        /\ crops_table.created =>
               /\ Len(rows) = 8
               /\ \A i, j \in DOMAIN rows : rows[i][1] = rows[j][1] => i = j
               /\ \A i \in DOMAIN seed_crops :
                      /\ rows[i][1] = seed_crops[i][1]
                      /\ rows[i][2] = seed_crops[i][2]
                      /\ rows[i][3] = seed_crops[i][3]
                      /\ rows[i][4] = seed_crops[i][4]
                      /\ rows[i][5] = Num(seed_crops[i][5])
                      /\ rows[i][6] = Num(seed_crops[i][6])
                      /\ rows[i][7] = Num(seed_crops[i][7])

\* The whole table read after the third construction.
C30_Witness ==
    /\ pc = "done" /\ op = "get_crop_data"
    /\ instances >= 3
    /\ input.args = <<<<>>>>
    /\ Len(result.rows) = 8

=============================================================================
